---- MODULE Spec2Model ----
(***************************************************************************)
(* A model of chat_app_unified.py: the wire codec (pack_payload /          *)
(* unpack_payload), the history store (record_history, the retention       *)
(* operations, the start-up clean), the connection handler with the peer   *)
(* registry, the liveness monitor (check_peers_online, ping_peer), the     *)
(* accept loop with the threads it starts, statement by statement, next to *)
(* the UI thread, the look-up of the local address                         *)
(* (check_local_ip_change), and the one read of a handler from a remote    *)
(* host that may stay silent.                                              *)
(*                                                                         *)
(* Texts (Python str) are sequences of code points, byte strings (Python   *)
(* bytes) are sequences of 0..255.  JSON values are records                *)
(* [t, n, s, m]: t the kind, n an integer, s a text, m the members of an   *)
(* object in insertion order.                                              *)
(***************************************************************************)
EXTENDS Integers, Sequences, FiniteSets, TLC

VARIABLES
    SHARED_KEY,   \* the global SHARED_KEY of this host (a text, <<>> when unset)
    peerKey,      \* the SHARED_KEY of the remote host that packs the envelope
    outObj,       \* the object the remote host passes to pack_payload
    wire,         \* the bytes that reach this host
    tamper,       \* what happened to the bytes in flight
    decoded,      \* the outcome of unpack_payload(wire) on this host
    cstage,       \* position of the codec scenario: idle, sent, decoded
    history,      \* the global history: peer -> list of entries
    histFile,     \* the content of chat_history.json
    nowT,         \* the wall clock, in ticks
    pc,           \* "import" until the module-level auto-clean ran, then "run"
    last,         \* the last history operation, its arguments and what it removed
    appends,      \* how many times record_history ran
    peers,        \* ChatApp.peers: address -> dict
    peersFile,    \* the content of peers.json
    uiQueue,      \* callbacks handed to root.after(0, ...), not yet run
    conn,         \* the last connection handled: what was received and replied
    mon,          \* the thread of check_peers_online: its position in the scan
    listener,     \* the thread of listen_thread: accepting or ended, its last error
    history_lock, \* the global history_lock: the thread that holds it, "" when free
    threads,      \* handler threads and the UI thread: the statement each is at
    local_ip      \* ChatApp.local_ip: the address of this host as last looked up

codecVars == <<SHARED_KEY, peerKey, outObj, wire, tamper, decoded, cstage>>
histVars  == <<history, histFile, nowT, pc, last, appends>>
thrVars   == <<listener, history_lock, threads, local_ip>>
connVars  == <<peers, peersFile, uiQueue, conn, mon, listener, history_lock, threads,
               local_ip>>
vars      == <<SHARED_KEY, peerKey, outObj, wire, tamper, decoded, cstage,
               history, histFile, nowT, pc, last, appends,
               peers, peersFile, uiQueue, conn, mon, listener, history_lock, threads,
               local_ip>>

----------------------------------------------------------------------------
(* Bytes, hexadecimal text, UTF-8.                                         *)

RECURSIVE XorBits(_, _, _)
XorBits(a, b, n) ==
    IF n = 0 THEN 0
    ELSE (((a % 2) + (b % 2)) % 2) + (2 * XorBits(a \div 2, b \div 2, n - 1))

\* b ^ k on two bytes
Xor8(a, b) == XorBits(a, b, 8)

\* one hexadecimal digit, lowercase, as bytes.hex() and hexdigest() write it
HexDigit(n) == IF n < 10 THEN 48 + n ELSE 87 + n

\* the value of a hexadecimal digit of either case, -1 for any other character
HexVal(c) ==
    IF c >= 48 /\ c <= 57 THEN c - 48
    ELSE IF c >= 97 /\ c <= 102 THEN c - 87
    ELSE IF c >= 65 /\ c <= 70 THEN c - 55
    ELSE -1

\* bytes.hex()
hex(bs) ==
    [i \in 1..(2 * Len(bs)) |->
        IF i % 2 = 1 THEN HexDigit(bs[(i + 1) \div 2] \div 16)
                     ELSE HexDigit(bs[i \div 2] % 16)]

\* ASCII white space, which bytes.fromhex skips in front of a pair of digits
IsSpace(c) == c = 32 \/ (c >= 9 /\ c <= 13)

\* whether t[i] is the first digit of a pair: an even number of digits stand
\* before it (dense: t holds no white space at all)
IsTopDigit(t, dense, i) ==
    /\ ~IsSpace(t[i])
    /\ IF dense THEN (i - 1) % 2 = 0
       ELSE Cardinality({j \in 1..(i - 1) : ~IsSpace(t[j])}) % 2 = 0

RECURSIVE HexPairs(_, _, _, _)
\* the bytes of the pairs of digits that start in lo..hi
HexPairs(t, dense, lo, hi) ==
    IF lo > hi THEN <<>>
    ELSE IF lo = hi
         THEN IF IsTopDigit(t, dense, lo)
              THEN <<(16 * HexVal(t[lo])) + HexVal(t[lo + 1])>>
              ELSE <<>>
    ELSE HexPairs(t, dense, lo, (lo + hi) \div 2)
           \o HexPairs(t, dense, ((lo + hi) \div 2) + 1, hi)

\* bytes.fromhex(text): white space is skipped in front of a pair of digits, a
\* pair is two hexadecimal digits side by side; ok = FALSE stands for its
\* ValueError
fromhex(t) ==
    LET dense == \A j \in 1..Len(t) : ~IsSpace(t[j])
        good  == \A i \in 1..Len(t) :
                    \/ IsSpace(t[i])
                    \/ /\ HexVal(t[i]) >= 0
                       /\ IsTopDigit(t, dense, i)
                            => (i + 1 <= Len(t) /\ HexVal(t[i + 1]) >= 0)
    IN  IF good THEN [ok |-> TRUE, bytes |-> HexPairs(t, dense, 1, Len(t))]
        ELSE [ok |-> FALSE, bytes |-> <<>>]

\* str.lower() (on the characters that can be part of a digest)
lower(t) == [i \in 1..Len(t) |-> IF t[i] >= 65 /\ t[i] <= 90 THEN t[i] + 32 ELSE t[i]]

\* the UTF-8 bytes of one code point
Utf8Char(c) ==
    IF c < 128 THEN <<c>>
    ELSE IF c < 2048 THEN <<192 + (c \div 64), 128 + (c % 64)>>
    ELSE IF c < 65536
         THEN <<224 + (c \div 4096), 128 + ((c \div 64) % 64), 128 + (c % 64)>>
    ELSE <<240 + (c \div 262144), 128 + ((c \div 4096) % 64),
           128 + ((c \div 64) % 64), 128 + (c % 64)>>

RECURSIVE Utf8Range(_, _, _)
Utf8Range(t, lo, hi) ==
    IF lo > hi THEN <<>>
    ELSE IF lo = hi THEN Utf8Char(t[lo])
    ELSE Utf8Range(t, lo, (lo + hi) \div 2) \o Utf8Range(t, ((lo + hi) \div 2) + 1, hi)

\* str.encode("utf-8")
utf8_encode(t) == Utf8Range(t, 1, Len(t))

\* the length of the UTF-8 sequence a lead byte announces, 0 for no lead byte
Utf8Len(b) ==
    IF b < 128 THEN 1
    ELSE IF b >= 194 /\ b <= 223 THEN 2
    ELSE IF b >= 224 /\ b <= 239 THEN 3
    ELSE IF b >= 240 /\ b <= 244 THEN 4
    ELSE 0

Utf8Cont(b) == b >= 128 /\ b <= 191

\* whether the n bytes at i are one well-formed sequence
Utf8WellFormed(bs, i, n) ==
    /\ n > 0
    /\ i + n - 1 <= Len(bs)
    /\ \A j \in 1..(n - 1) : Utf8Cont(bs[i + j])
    /\ (bs[i] = 224 => bs[i + 1] >= 160)
    /\ (bs[i] = 237 => bs[i + 1] <= 159)
    /\ (bs[i] = 240 => bs[i + 1] >= 144)
    /\ (bs[i] = 244 => bs[i + 1] <= 143)

Utf8Point(bs, i, n) ==
    IF n = 1 THEN bs[i]
    ELSE IF n = 2 THEN ((bs[i] - 192) * 64) + (bs[i + 1] - 128)
    ELSE IF n = 3
         THEN ((bs[i] - 224) * 4096) + ((bs[i + 1] - 128) * 64) + (bs[i + 2] - 128)
    ELSE ((bs[i] - 240) * 262144) + ((bs[i + 1] - 128) * 4096)
           + ((bs[i + 2] - 128) * 64) + (bs[i + 3] - 128)

\* whether the continuation byte at i belongs to the sequence of a lead byte
Utf8Owned(bs, i) ==
    \E d \in 1..3 :
        /\ i - d >= 1
        /\ ~Utf8Cont(bs[i - d])
        /\ Utf8Len(bs[i - d]) > d
        /\ \A e \in 1..(d - 1) : Utf8Cont(bs[i - e])

RECURSIVE Utf8Points(_, _, _)
\* the code points of the sequences that start in lo..hi
Utf8Points(bs, lo, hi) ==
    IF lo > hi THEN <<>>
    ELSE IF lo = hi
         THEN IF Utf8Cont(bs[lo]) THEN <<>>
              ELSE <<Utf8Point(bs, lo, Utf8Len(bs[lo]))>>
    ELSE Utf8Points(bs, lo, (lo + hi) \div 2)
           \o Utf8Points(bs, ((lo + hi) \div 2) + 1, hi)

\* bytes.decode("utf-8"): every byte is a lead byte of a well-formed sequence
\* or a continuation byte of one; ok = FALSE stands for its UnicodeDecodeError
utf8_decode(bs) ==
    LET good == \A i \in 1..Len(bs) :
                   IF Utf8Cont(bs[i]) THEN Utf8Owned(bs, i)
                   ELSE Utf8WellFormed(bs, i, Utf8Len(bs[i]))
    IN  IF good THEN [ok |-> TRUE, text |-> Utf8Points(bs, 1, Len(bs))]
        ELSE [ok |-> FALSE, text |-> <<>>]

----------------------------------------------------------------------------
(* JSON values, json.dumps and json.loads.  The fragment modelled: the     *)
(* scalars int, str, true, false, null, and objects whose members are      *)
(* scalars; arrays, floats and nested objects are outside it and no input  *)
(* of the model contains one.                                              *)

JInt(n) == [t |-> "int", n |-> n, s |-> <<>>, m |-> <<>>]
JStr(s) == [t |-> "str", n |-> 0, s |-> s, m |-> <<>>]
JObj(m) == [t |-> "obj", n |-> 0, s |-> <<>>, m |-> m]
JTrue   == [t |-> "true", n |-> 0, s |-> <<>>, m |-> <<>>]
JFalse  == [t |-> "false", n |-> 0, s |-> <<>>, m |-> <<>>]
\* JSON null, Python None
JNull   == [t |-> "null", n |-> 0, s |-> <<>>, m |-> <<>>]

Member(k, v) == [k |-> k, v |-> v]

\* isinstance(v, dict)
IsDict(v) == v.t = "obj"

\* k in d
HasKey(d, k) == \E i \in 1..Len(d.m) : d.m[i].k = k

\* d.get(k, dflt)
DictGet(d, k, dflt) ==
    IF HasKey(d, k) THEN d.m[CHOOSE i \in 1..Len(d.m) : d.m[i].k = k].v ELSE dflt

\* d[k] = v: the key keeps its place when it is already there
DictPut(m, k, v) ==
    IF \E i \in 1..Len(m) : m[i].k = k
    THEN [i \in 1..Len(m) |-> IF m[i].k = k THEN Member(k, v) ELSE m[i]]
    ELSE Append(m, Member(k, v))

\* Python's truth value of a JSON value
Truthy(v) ==
    CASE v.t = "int"  -> v.n # 0
      [] v.t = "str"  -> v.s # <<>>
      [] v.t = "obj"  -> v.m # <<>>
      [] v.t = "true" -> TRUE
      [] OTHER        -> FALSE

\* v == 1 in Python: the integer 1, and True, which equals 1
PyEqualsOne(v) == (v.t = "int" /\ v.n = 1) \/ v.t = "true"

RECURSIVE Digits(_)
\* the decimal digits of n >= 0
Digits(n) == IF n < 10 THEN <<48 + n>> ELSE Digits(n \div 10) \o <<48 + (n % 10)>>

\* one character of a string as json.dumps writes it (ensure_ascii)
EscapeChar(c) ==
    IF c = 34 THEN <<92, 34>>
    ELSE IF c = 92 THEN <<92, 92>>
    ELSE IF c = 10 THEN <<92, 110>>
    ELSE IF c = 13 THEN <<92, 114>>
    ELSE IF c = 9 THEN <<92, 116>>
    ELSE IF c = 8 THEN <<92, 98>>
    ELSE IF c = 12 THEN <<92, 102>>
    ELSE IF c >= 32 /\ c <= 126 THEN <<c>>
    ELSE <<92, 117, HexDigit(c \div 4096), HexDigit((c \div 256) % 16),
           HexDigit((c \div 16) % 16), HexDigit(c % 16)>>

RECURSIVE EscapeRange(_, _, _)
EscapeRange(s, lo, hi) ==
    IF lo > hi THEN <<>>
    ELSE IF lo = hi THEN EscapeChar(s[lo])
    ELSE EscapeRange(s, lo, (lo + hi) \div 2)
           \o EscapeRange(s, ((lo + hi) \div 2) + 1, hi)

EscapeText(s) == EscapeRange(s, 1, Len(s))

\* json.dumps of a scalar
DumpScalar(v) ==
    CASE v.t = "int"   -> IF v.n < 0 THEN <<45>> \o Digits(0 - v.n) ELSE Digits(v.n)
      [] v.t = "str"   -> <<34>> \o EscapeText(v.s) \o <<34>>
      [] v.t = "true"  -> <<116, 114, 117, 101>>
      [] v.t = "false" -> <<102, 97, 108, 115, 101>>
      [] OTHER         -> <<110, 117, 108, 108>>

RECURSIVE DumpMembers(_, _)
\* "key": value, "key": value ... from member i on
DumpMembers(m, i) ==
    IF i > Len(m) THEN <<>>
    ELSE (IF i > 1 THEN <<44, 32>> ELSE <<>>)
         \o <<34>> \o EscapeText(m[i].k) \o <<34, 58, 32>> \o DumpScalar(m[i].v)
         \o DumpMembers(m, i + 1)

\* json.dumps(obj), with its default separators ", " and ": "
json_dumps(v) ==
    IF v.t = "obj" THEN <<123>> \o DumpMembers(v.m, 1) \o <<125>> ELSE DumpScalar(v)

ParseFail == [ok |-> FALSE, val |-> JNull, next |-> 0]

\* the white space json.loads skips between tokens
IsWs(c) == c = 32 \/ c = 9 \/ c = 10 \/ c = 13

\* the first position from i on that holds no white space
SkipWs(t, i) ==
    CHOOSE j \in i..(Len(t) + 1) :
        /\ j = Len(t) + 1 \/ ~IsWs(t[j])
        /\ \A q \in i..(j - 1) : IsWs(t[q])

\* the character a backslash escape stands for, -1 when it is no escape
Unescape(c) ==
    IF c = 34 \/ c = 92 \/ c = 47 THEN c
    ELSE IF c = 98 THEN 8
    ELSE IF c = 102 THEN 12
    ELSE IF c = 110 THEN 10
    ELSE IF c = 114 THEN 13
    ELSE IF c = 116 THEN 9
    ELSE -1

\* how many backslashes stand in a row just before position j of the string
\* that starts at i
BackslashRun(t, i, j) ==
    CHOOSE r \in 0..(j - i) :
        /\ r = j - i \/ t[j - 1 - r] # 92
        /\ \A q \in 0..(r - 1) : t[j - 1 - q] = 92

\* whether an escape starts at k: a backslash that no backslash escapes
EscapeStarts(t, i, k) == t[k] = 92 /\ BackslashRun(t, i, k) % 2 = 0

\* whether the escape at k is one json.loads accepts, within the string i..j-1
EscapeGood(t, i, j, k) ==
    /\ k + 1 <= j - 1
    /\ IF t[k + 1] = 117
       THEN k + 5 <= j - 1 /\ \A d \in 2..5 : HexVal(t[k + d]) >= 0
       ELSE Unescape(t[k + 1]) >= 0

\* whether the character at k is part of an escape that starts before it
InEscape(t, i, k) ==
    \/ k - 1 >= i /\ EscapeStarts(t, i, k - 1)
    \/ \E d \in 2..5 : k - d >= i /\ EscapeStarts(t, i, k - d) /\ t[k - d + 1] = 117

\* what the character at k adds to the string read
StringChar(t, i, k) ==
    IF EscapeStarts(t, i, k)
    THEN IF t[k + 1] = 117
         THEN <<(HexVal(t[k + 2]) * 4096) + (HexVal(t[k + 3]) * 256)
                  + (HexVal(t[k + 4]) * 16) + HexVal(t[k + 5])>>
         ELSE <<Unescape(t[k + 1])>>
    ELSE IF InEscape(t, i, k) THEN <<>>
    ELSE <<t[k]>>

RECURSIVE StringChars(_, _, _, _)
StringChars(t, i, lo, hi) ==
    IF lo > hi THEN <<>>
    ELSE IF lo = hi THEN StringChar(t, i, lo)
    ELSE StringChars(t, i, lo, (lo + hi) \div 2)
           \o StringChars(t, i, ((lo + hi) \div 2) + 1, hi)

\* the string whose opening quote is just before i: it ends at the first quote
\* that no backslash escapes, and holds no control character and no bad escape
ScanString(t, i) ==
    LET ends == {j \in i..Len(t) : t[j] = 34 /\ BackslashRun(t, i, j) % 2 = 0}
        j    == CHOOSE e \in ends : \A f \in ends : e <= f
        good == \A k \in i..(j - 1) :
                    /\ t[k] >= 32
                    /\ EscapeStarts(t, i, k) => EscapeGood(t, i, j, k)
    IN  IF ends = {} THEN ParseFail
        ELSE IF ~good THEN ParseFail
        ELSE [ok |-> TRUE, val |-> JStr(StringChars(t, i, i, j - 1)), next |-> j + 1]

IsDigit(c) == c >= 48 /\ c <= 57

\* the first position from i on that holds no digit
DigitsEnd(t, i) ==
    CHOOSE j \in i..(Len(t) + 1) :
        /\ j = Len(t) + 1 \/ ~IsDigit(t[j])
        /\ \A q \in i..(j - 1) : IsDigit(t[q])

RECURSIVE DigitsValue(_, _, _)
\* the value of the digits t[i..j-1]
DigitsValue(t, i, j) ==
    IF i >= j THEN 0 ELSE (DigitsValue(t, i, j - 1) * 10) + (t[j - 1] - 48)

\* an integer at i: -?(0|[1-9][0-9]*), not followed by a fraction or an exponent
\* (floats, and integers of more than nine digits, are outside the fragment)
ScanNumber(t, i) ==
    LET neg == t[i] = 45
        j   == IF neg THEN i + 1 ELSE i
    IN  IF j > Len(t) \/ ~IsDigit(t[j]) THEN ParseFail
        ELSE LET e == IF t[j] = 48 THEN j + 1 ELSE DigitsEnd(t, j)
                 n == DigitsValue(t, j, e)
             IN  IF e - j > 9 THEN ParseFail
                 ELSE IF e <= Len(t) /\ (t[e] = 46 \/ t[e] = 101 \/ t[e] = 69)
                 THEN ParseFail
                 ELSE [ok |-> TRUE, val |-> JInt(IF neg THEN 0 - n ELSE n), next |-> e]

\* whether the text w stands at i
LiteralAt(t, i, w) ==
    /\ i + Len(w) - 1 <= Len(t)
    /\ \A j \in 1..Len(w) : t[i + j - 1] = w[j]

ScanScalar(t, i) ==
    IF i > Len(t) THEN ParseFail
    ELSE IF t[i] = 34 THEN ScanString(t, i + 1)
    ELSE IF IsDigit(t[i]) \/ t[i] = 45 THEN ScanNumber(t, i)
    ELSE IF LiteralAt(t, i, <<116, 114, 117, 101>>)
         THEN [ok |-> TRUE, val |-> JTrue, next |-> i + 4]
    ELSE IF LiteralAt(t, i, <<102, 97, 108, 115, 101>>)
         THEN [ok |-> TRUE, val |-> JFalse, next |-> i + 5]
    ELSE IF LiteralAt(t, i, <<110, 117, 108, 108>>)
         THEN [ok |-> TRUE, val |-> JNull, next |-> i + 4]
    ELSE ParseFail

RECURSIVE ScanMembers(_, _, _)
\* the members of an object from the quote of a key at i on; acc the ones read
ScanMembers(t, i, acc) ==
    IF i > Len(t) \/ t[i] # 34 THEN ParseFail
    ELSE LET k == ScanString(t, i + 1)
             c == SkipWs(t, k.next)
         IN  IF ~k.ok \/ c > Len(t) THEN ParseFail
             ELSE IF t[c] # 58 THEN ParseFail
             ELSE LET v  == ScanScalar(t, SkipWs(t, c + 1))
                      e  == SkipWs(t, v.next)
                      m2 == DictPut(acc, k.val.s, v.val)
                  IN  IF ~v.ok \/ e > Len(t) THEN ParseFail
                      ELSE IF t[e] = 125
                           THEN [ok |-> TRUE, val |-> JObj(m2), next |-> e + 1]
                      ELSE IF t[e] = 44 THEN ScanMembers(t, SkipWs(t, e + 1), m2)
                      ELSE ParseFail

ScanValue(t, i) ==
    IF i > Len(t) THEN ParseFail
    ELSE IF t[i] # 123 THEN ScanScalar(t, i)
    ELSE LET j == SkipWs(t, i + 1)
         IN  IF j <= Len(t) /\ t[j] = 125
             THEN [ok |-> TRUE, val |-> JObj(<<>>), next |-> j + 1]
             ELSE ScanMembers(t, j, <<>>)

\* json.loads(text): ok = FALSE stands for its JSONDecodeError
json_loads(t) ==
    LET r == ScanValue(t, SkipWs(t, 1))
    IN  IF r.ok /\ SkipWs(t, r.next) = Len(t) + 1
        THEN [ok |-> TRUE, val |-> r.val]
        ELSE [ok |-> FALSE, val |-> JNull]

----------------------------------------------------------------------------
(* The codec.  Every function that reads the global SHARED_KEY takes the   *)
(* key of the host that runs it as its first parameter.                    *)

\* the texts the code names
K_enc       == <<101, 110, 99>>
K_payload   == <<112, 97, 121, 108, 111, 97, 100>>
K_hmac      == <<104, 109, 97, 99>>
K_ping      == <<112, 105, 110, 103>>
K_pong      == <<112, 111, 110, 103>>
K_rtt_ms    == <<114, 116, 116, 95, 109, 115>>
K_msg       == <<109, 115, 103>>
K_from_port == <<102, 114, 111, 109, 95, 112, 111, 114, 116>>
K_name      == <<110, 97, 109, 101>>
\* "__TEST_REPLY__"
TEST_REPLY  == <<95, 95, 84, 69, 83, 84, 95, 82, 69, 80, 76, 89, 95, 95>>

_key_bytes(key) == IF key # <<>> THEN utf8_encode(key) ELSE <<>>

\* a slip of the pen in the cipher: the key byte is added, not XOR-ed
xor_encrypt_added(key, data_bytes) ==
    LET k == _key_bytes(key)
    IN  IF k = <<>> THEN data_bytes
        ELSE [i \in 1..Len(data_bytes) |->
                 (data_bytes[i] + k[((i - 1) % Len(k)) + 1]) % 256]

_xor_encrypt(key, data_bytes) ==
    LET k == _key_bytes(key)
    IN  IF k = <<>> THEN data_bytes
        ELSE [i \in 1..Len(data_bytes) |->
                 Xor8(data_bytes[i], k[((i - 1) % Len(k)) + 1])]

\* hashlib.sha256(b).hexdigest().  SHA-256 is taken to be free of collisions:
\* the digest is an injective image of the bytes hashed, written in lowercase
\* hexadecimal digits (its length of 64 digits is not kept).
sha256_hexdigest(b) == hex([i \in 1..Len(b) |-> ((b[i] * 167) + 13) % 256])

\* a digest that forgets the key
make_hmac_unkeyed(key, data_bytes) ==
    IF _key_bytes(key) = <<>> THEN <<>> ELSE sha256_hexdigest(data_bytes)

make_hmac(key, data_bytes) ==
    LET k == _key_bytes(key)
    IN  IF k = <<>> THEN <<>> ELSE sha256_hexdigest(k \o data_bytes)

\* the wrapper object of an encrypted envelope
Wrapper(payload_hex, hmac_hex) ==
    JObj(<<Member(K_enc, JInt(1)),
           Member(K_payload, JStr(payload_hex)),
           Member(K_hmac, JStr(hmac_hex))>>)

pack_payload(key, obj) ==
    LET raw == utf8_encode(json_dumps(obj))
        enc == _xor_encrypt(key, raw)
    IN  IF key = <<>> THEN raw
        ELSE utf8_encode(json_dumps(Wrapper(hex(enc), lower(make_hmac(key, enc)))))

\* outcomes of unpack_payload: the object returned or the exception raised.  The
\* four ValueErrors the function raises itself are InvalidEncoding, NotJSON,
\* ConfigurationError and HmacMismatch; the other names are the exceptions
\* that lines 290, 291 and 299 let through.  ops lists the work done on the
\* ciphertext.
Returned(v, ops) == [ok |-> TRUE, err |-> "", val |-> v, ops |-> ops]
Raised(e, ops)   == [ok |-> FALSE, err |-> e, val |-> JNull, ops |-> ops]

\* a comparison that accepts every tag
TagMatchesAlways(key, enc, hmac_recv) == TRUE

\* line 294: make_hmac(enc).lower() != hmac_recv, negated
TagMatches(key, enc, hmac_recv) == lower(make_hmac(key, enc)) = hmac_recv

\* lines 298-299, reached once the tag matched
DecryptAndParse(key, enc) ==
    LET dec == utf8_decode(_xor_encrypt(key, enc))
        obj == json_loads(dec.text)
    IN  IF ~dec.ok THEN Raised("UnicodeDecodeError", <<"fromhex", "hmac", "xor">>)
        ELSE IF ~obj.ok
             THEN Raised("JSONDecodeError", <<"fromhex", "hmac", "xor", "loads">>)
        ELSE Returned(obj.val, <<"fromhex", "hmac", "xor", "loads">>)

\* a decoder that hands the wrapper through when no key is set
UnpackWrapperLenient(key, obj) ==
    LET payload_hex == DictGet(obj, K_payload, JStr(<<>>))
        hmac_field  == DictGet(obj, K_hmac, JStr(<<>>))
        enc         == fromhex(payload_hex.s)
    IN  IF key = <<>> THEN Returned(obj, <<>>)
        ELSE IF hmac_field.t # "str" THEN Raised("AttributeError", <<>>)
        ELSE IF payload_hex.t # "str" THEN Raised("TypeError", <<>>)
        ELSE IF ~enc.ok THEN Raised("ValueError", <<"fromhex">>)
        ELSE IF ~TagMatches(key, enc.bytes, lower(hmac_field.s))
             THEN Raised("HmacMismatch", <<"fromhex", "hmac">>)
        ELSE DecryptAndParse(key, enc.bytes)

\* a decoder that decrypts before it compares the tags
UnpackWrapperEager(key, obj) ==
    LET payload_hex == DictGet(obj, K_payload, JStr(<<>>))
        hmac_field  == DictGet(obj, K_hmac, JStr(<<>>))
        enc         == fromhex(payload_hex.s)
    IN  IF key = <<>> THEN Raised("ConfigurationError", <<>>)
        ELSE IF hmac_field.t # "str" THEN Raised("AttributeError", <<>>)
        ELSE IF payload_hex.t # "str" THEN Raised("TypeError", <<>>)
        ELSE IF ~enc.ok THEN Raised("ValueError", <<"fromhex">>)
        ELSE IF ~TagMatches(key, enc.bytes, lower(hmac_field.s))
             THEN Raised("HmacMismatch", <<"fromhex", "xor", "hmac">>)
        ELSE DecryptAndParse(key, enc.bytes)

\* lines 286-299: the branch of an object with enc == 1
UnpackWrapper(key, obj) ==
    LET payload_hex == DictGet(obj, K_payload, JStr(<<>>))
        hmac_field  == DictGet(obj, K_hmac, JStr(<<>>))
        enc         == fromhex(payload_hex.s)
    IN  IF key = <<>> THEN Raised("ConfigurationError", <<>>)
        ELSE IF hmac_field.t # "str" THEN Raised("AttributeError", <<>>)
        ELSE IF payload_hex.t # "str" THEN Raised("TypeError", <<>>)
        ELSE IF ~enc.ok THEN Raised("ValueError", <<"fromhex">>)
        ELSE IF ~TagMatches(key, enc.bytes, lower(hmac_field.s))
             THEN Raised("HmacMismatch", <<"fromhex", "hmac">>)
        ELSE DecryptAndParse(key, enc.bytes)

\* a decode that takes nothing but wrappers once a key is set
unpack_payload_strict(key, raw_bytes) ==
    LET data == utf8_decode(raw_bytes)
        obj  == json_loads(data.text)
    IN  IF ~data.ok THEN Raised("InvalidEncoding", <<>>)
        ELSE IF ~obj.ok THEN Raised("NotJSON", <<>>)
        ELSE IF IsDict(obj.val) /\ PyEqualsOne(DictGet(obj.val, K_enc, JNull))
             THEN UnpackWrapper(key, obj.val)
        ELSE IF key # <<>> THEN Raised("HmacMismatch", <<>>)
        ELSE Returned(obj.val, <<>>)

unpack_payload(key, raw_bytes) ==
    LET data == utf8_decode(raw_bytes)
        obj  == json_loads(data.text)
    IN  IF ~data.ok THEN Raised("InvalidEncoding", <<>>)
        ELSE IF ~obj.ok THEN Raised("NotJSON", <<>>)
        \* isinstance(obj, dict) and obj.get("enc") == 1
        ELSE IF IsDict(obj.val) /\ PyEqualsOne(DictGet(obj.val, K_enc, JNull))
             THEN UnpackWrapper(key, obj.val)
        ELSE Returned(obj.val, <<>>)

RECURSIVE LStrip(_)
LStrip(t) == IF t # <<>> /\ IsSpace(Head(t)) THEN LStrip(Tail(t)) ELSE t

RECURSIVE RStrip(_)
RStrip(t) ==
    IF t # <<>> /\ IsSpace(t[Len(t)]) THEN RStrip(SubSeq(t, 1, Len(t) - 1)) ELSE t

\* str.strip()
strip(t) == RStrip(LStrip(t))

----------------------------------------------------------------------------
(* The codec scenario: a remote host packs an object with its key, the     *)
(* bytes may be altered in flight, or are made up by the remote side, and  *)
(* this host unpacks what arrives with the key it holds at that moment.    *)

\* what the user may type into the shared-key dialog: nothing, "k", " s3 "
KeyAnswers == {<<>>, <<107>>, <<32, 115, 51, 32>>}

\* the keys a host can hold
Keys == {strip(a) : a \in KeyAnswers}

\* {"ping": 1}
PingObj == JObj(<<Member(K_ping, JInt(1))>>)

\* {"pong": 1, "rtt_ms": 0}
PongObj == JObj(<<Member(K_pong, JInt(1)), Member(K_rtt_ms, JInt(0))>>)

\* {"msg": m, "from_port": p}
ChatObj(m, p) == JObj(<<Member(K_msg, JStr(m)), Member(K_from_port, JInt(p))>>)

\* {"msg": m, "from_port": p, "name": n}
NamedChatObj(m, p, n) ==
    JObj(<<Member(K_msg, JStr(m)), Member(K_from_port, JInt(p)),
           Member(K_name, JStr(n))>>)

\* the objects packed in the codec scenario; the chat text is h"e-acute
Messages == {PingObj, ChatObj(<<104, 34, 233>>, 5050)}

NoTamper == [kind |-> "none", field |-> "", pos |-> 0, was |-> 0]
\* decoded: the outcome out of unpack_payload under the key held then
NoResult == [out |-> Raised("none", <<>>), key |-> <<>>]

\* which field of a packed wrapper
\*   {"enc": 1, "payload": "<digits>", "hmac": "<digits>"}
\* the character at p is a digit of: the payload digits follow the fifth
\* quote, the hmac digits the ninth
FieldOf(w, p) ==
    LET quotes == Cardinality({j \in 1..p : w[j] = 34})
    IN  IF w[p] = 34 THEN "none"
        ELSE IF quotes = 5 THEN "payload"
        ELSE IF quotes = 9 THEN "hmac"
        ELSE "none"

\* the envelopes a remote host makes up with the key k
Crafts == {"upper tag", "tag of plaintext", "payload zz", "hmac 5", "payload 7",
           "enc only", "enc true", "enc 0", "not json inside", "not utf-8 inside",
           "plain object", "plain 5", "bytes hi", "not utf-8"}

Crafted(k, obj, c) ==
    LET raw  == utf8_encode(json_dumps(obj))
        enc  == _xor_encrypt(k, raw)
        tag  == make_hmac(k, enc)
        up   == [i \in 1..Len(tag) |->
                    IF tag[i] >= 97 /\ tag[i] <= 102 THEN tag[i] - 32 ELSE tag[i]]
        junk == _xor_encrypt(k, <<120, 123>>)
        bad8 == _xor_encrypt(k, <<255>>)
        W(o) == utf8_encode(json_dumps(o))
    IN  CASE c = "upper tag" -> W(Wrapper(hex(enc), up))
          [] c = "tag of plaintext" -> W(Wrapper(hex(enc), make_hmac(k, raw)))
          [] c = "payload zz" -> W(Wrapper(<<122, 122>>, tag))
          [] c = "hmac 5" ->
                W(JObj(<<Member(K_enc, JInt(1)), Member(K_payload, JStr(hex(enc))),
                         Member(K_hmac, JInt(5))>>))
          [] c = "payload 7" ->
                W(JObj(<<Member(K_enc, JInt(1)), Member(K_payload, JInt(7)),
                         Member(K_hmac, JStr(tag))>>))
          [] c = "enc only" -> W(JObj(<<Member(K_enc, JInt(1))>>))
          [] c = "enc true" ->
                W(JObj(<<Member(K_enc, JTrue), Member(K_payload, JStr(hex(enc))),
                         Member(K_hmac, JStr(tag))>>))
          [] c = "enc 0" ->
                W(JObj(<<Member(K_enc, JInt(0)), Member(K_payload, JStr(hex(enc))),
                         Member(K_hmac, JStr(tag))>>))
          [] c = "not json inside" -> W(Wrapper(hex(junk), make_hmac(k, junk)))
          [] c = "not utf-8 inside" -> W(Wrapper(hex(bad8), make_hmac(k, bad8)))
          [] c = "plain object" -> W(obj)
          [] c = "plain 5" -> W(JInt(5))
          [] c = "bytes hi" -> <<104, 105>>
          [] OTHER -> <<123, 255, 125>>

InitCodec ==
    /\ SHARED_KEY = <<>>
    /\ peerKey \in Keys
    /\ outObj = JNull
    /\ wire = <<>>
    /\ tamper = NoTamper
    /\ decoded = NoResult
    /\ cstage = "idle"

\* prompt_set_shared_key, the dialog answered with ans; in this scenario the
\* dialog is answered before the bytes are sent
prompt_set_shared_key(ans) ==
    /\ cstage = "idle"
    /\ SHARED_KEY' = strip(ans)
    /\ UNCHANGED <<peerKey, outObj, wire, tamper, decoded, cstage>>
    /\ UNCHANGED <<histVars, connVars>>

\* the remote host runs pack_payload(obj) and sends the bytes
PeerPacks(obj) ==
    /\ cstage = "idle"
    /\ outObj' = obj
    /\ wire' = pack_payload(peerKey, obj)
    /\ tamper' = NoTamper
    /\ decoded' = NoResult
    /\ cstage' = "sent"
    /\ UNCHANGED <<SHARED_KEY, peerKey>>
    /\ UNCHANGED <<histVars, connVars>>

\* one bit of one hexadecimal digit of payload or hmac flips in flight, between
\* two hosts that hold the same key
FlipBit(p, b) ==
    /\ cstage = "sent"
    /\ tamper.kind = "none"
    /\ peerKey # <<>>
    /\ peerKey = SHARED_KEY
    /\ FieldOf(wire, p) # "none"
    /\ wire' = [wire EXCEPT ![p] = Xor8(@, 2 ^ b)]
    /\ tamper' = [kind |-> "flip", field |-> FieldOf(wire, p), pos |-> p, was |-> wire[p]]
    /\ UNCHANGED <<SHARED_KEY, peerKey, outObj, decoded, cstage>>
    /\ UNCHANGED <<histVars, connVars>>

\* the remote side sends bytes of its own making
PeerCrafts(k, obj, c) ==
    /\ cstage = "idle"
    /\ outObj' = obj
    /\ wire' = Crafted(k, obj, c)
    /\ tamper' = [kind |-> c, field |-> "", pos |-> 0, was |-> 0]
    /\ decoded' = NoResult
    /\ cstage' = "sent"
    /\ UNCHANGED <<SHARED_KEY, peerKey>>
    /\ UNCHANGED <<histVars, connVars>>

\* this host runs unpack_payload(wire)
Unpack ==
    /\ cstage = "sent"
    /\ decoded' = [out |-> unpack_payload(SHARED_KEY, wire), key |-> SHARED_KEY]
    /\ cstage' = "decoded"
    /\ UNCHANGED <<SHARED_KEY, peerKey, outObj, wire, tamper>>
    /\ UNCHANGED <<histVars, connVars>>

NextCodec ==
    \/ \E ans \in KeyAnswers : prompt_set_shared_key(ans)
    \/ \E obj \in Messages : PeerPacks(obj)
    \/ \E p \in 1..Len(wire), b \in 0..7 : FlipBit(p, b)
    \/ \E k \in Keys \ {<<>>}, obj \in Messages, c \in Crafts : PeerCrafts(k, obj, c)
    \/ Unpack

----------------------------------------------------------------------------
(* The history store.  The clock counts ticks, TicksPerSecond to the       *)
(* second; a day is scaled down to SecondsPerDay seconds and the ping cap  *)
(* (300 in the source) to MAX_PING_RECORDS_PER_PEER.  The "time" of an     *)
(* entry is what the JSON document holds: a text of the form               *)
(* %Y-%m-%d %H:%M:%S (k = "str", the second it names in sec), another      *)
(* text (k = "bad") or nothing (k = "none").                               *)

TicksPerSecond == 2
SecondsPerDay == 2
TicksPerDay == SecondsPerDay * TicksPerSecond
MAX_PING_RECORDS_PER_PEER == 2
AUTO_CLEAN_DAYS == 30
MaxAppends == 3
MaxTicks == 1
MaxN == 2
MaxDays == 2

\* the instant the program starts at, on a whole second
StartTick == (AUTO_CLEAN_DAYS + MaxDays + 1) * TicksPerDay
StartSec == StartTick \div TicksPerSecond

PeerIPs == {"10.0.0.2", "10.0.0.3"}

BadTime == [k |-> "bad", sec |-> 0]
NoTime == [k |-> "none", sec |-> 0]

\* datetime.strftime("%Y-%m-%d %H:%M:%S"): the fraction of the second is lost
strftime(t) == [k |-> "str", sec |-> t \div TicksPerSecond]

\* datetime.strptime(x, "%Y-%m-%d %H:%M:%S"); ok = FALSE stands for the
\* exception on a text of another form or on None
strptime(x) ==
    IF x.k = "str" THEN [ok |-> TRUE, t |-> x.sec * TicksPerSecond]
    ELSE [ok |-> FALSE, t |-> 0]

\* now()
now == strftime(nowT)

Entry(time, direction, content, entry_type) ==
    [time |-> time, dir |-> direction, msg |-> content, type |-> entry_type]

\* dict access: h.get(k, []) and h[k] = v
ListOf(h, k) == IF k \in DOMAIN h THEN h[k] ELSE <<>>
Put(h, k, v) == [x \in (DOMAIN h) \cup {k} |-> IF x = k THEN v ELSE h[x]]
EmptyDict == [x \in {} |-> <<>>]

RECURSIVE TotalLen(_, _)
TotalLen(h, S) ==
    IF S = {} THEN 0
    ELSE LET k == CHOOSE x \in S : TRUE IN Len(h[k]) + TotalLen(h, S \ {k})

\* the history file: absent, written with a document, or left behind by a
\* write that failed
FileAbsent == [state |-> "absent", doc |-> EmptyDict]
FileOf(doc) == [state |-> "written", doc |-> doc]
FileStale == [state |-> "stale", doc |-> EmptyDict]
WriteOutcomes == {"written", "failed"}

\* a save that writes the peers of the history without their entries
save_history_keys(hist, o, file) ==
    IF o = "written" THEN FileOf([p \in DOMAIN hist |-> <<>>]) ELSE FileStale

\* save_history(hist): open(..., "w") and json.dump; a failure is logged and
\* swallowed, and the file is then what it was before or a part of the new
\* document: in both cases not the document hist, and the model keeps no
\* content for it
save_history(hist, o, file) == IF o = "written" THEN FileOf(hist) ELSE FileStale

\* load_history(): {} when the file is absent or cannot be read
load_history(file) == IF file.state = "written" THEN file.doc ELSE EmptyDict

\* a comparison that also drops the entry written exactly at the cutoff
NotBeforeStrict(lst, cutoff) ==
    SelectSeq(lst, LAMBDA e : strptime(e.time).ok /\ strptime(e.time).t > cutoff)

\* the loop of lines 124-131 and 1288-1297: the entries whose time parses and
\* is not before cutoff
NotBefore(lst, cutoff) ==
    SelectSeq(lst, LAMBDA e : strptime(e.time).ok /\ strptime(e.time).t >= cutoff)

Pings(lst) == SelectSeq(lst, LAMBDA e : e.type = "ping")

RECURSIVE SkipPings(_, _)
\* the loop of lines 167-173: lst without its first remove_count pings
SkipPings(lst, remove_count) ==
    IF lst = <<>> THEN <<>>
    ELSE IF Head(lst).type = "ping" /\ remove_count > 0
         THEN SkipPings(Tail(lst), remove_count - 1)
    ELSE <<Head(lst)>> \o SkipPings(Tail(lst), remove_count)

\* a cap check that lets one ping too many stay
EnforcePingCapLate(lst) ==
    IF Len(Pings(lst)) > MAX_PING_RECORDS_PER_PEER + 1
    THEN SkipPings(lst, Len(Pings(lst)) - MAX_PING_RECORDS_PER_PEER - 1)
    ELSE lst

\* a cap enforcement that drops the oldest entries of any type
EnforcePingCapAnyType(lst) ==
    IF Len(Pings(lst)) > MAX_PING_RECORDS_PER_PEER
    THEN SubSeq(lst, Len(Pings(lst)) - MAX_PING_RECORDS_PER_PEER + 1, Len(lst))
    ELSE lst

\* lines 163-174 of record_history
EnforcePingCap(lst) ==
    IF Len(Pings(lst)) > MAX_PING_RECORDS_PER_PEER
    THEN SkipPings(lst, Len(Pings(lst)) - MAX_PING_RECORDS_PER_PEER)
    ELSE lst

\* lst[-n:] for n >= 0: the start -n counts from the end when it is negative,
\* and -0 is 0, the start of the list
LastN(lst, n) ==
    LET start == IF (0 - n) < 0 THEN (IF Len(lst) - n < 0 THEN 0 ELSE Len(lst) - n)
                 ELSE 0
    IN  SubSeq(lst, start + 1, Len(lst))

NoOp == [op |-> "none", peer |-> "", type |-> "", n |-> 0, removed |-> 0]
Op(name, peer, type, n, removed) ==
    [op |-> name, peer |-> peer, type |-> type, n |-> n, removed |-> removed]

\* what record_history is called with in the history scenarios
Contents == {JStr(<<104, 105>>)}

\* the entries of all peers together
Total(h) == TotalLen(h, DOMAIN h)

\* a clean that writes the file whether or not it removed anything
AutoCleanAlwaysSaves(o) ==
    /\ pc = "import"
    /\ LET cutoff  == nowT - (AUTO_CLEAN_DAYS * TicksPerDay)
           cleaned == [p \in DOMAIN history |-> NotBefore(history[p], cutoff)]
       IN  /\ history' = cleaned
           /\ histFile' = save_history(cleaned, o, histFile)
           /\ last' = Op("auto_clean", "", "", AUTO_CLEAN_DAYS, Total(history) - Total(cleaned))
    /\ pc' = "run"
    /\ UNCHANGED <<nowT, appends>>
    /\ UNCHANGED <<codecVars, connVars>>

\* the module-level clean of lines 119-139, run once when the module loads
AutoClean(o) ==
    /\ pc = "import"
    /\ LET cutoff  == nowT - (AUTO_CLEAN_DAYS * TicksPerDay)
           cleaned == [p \in DOMAIN history |-> NotBefore(history[p], cutoff)]
           changed == \E p \in DOMAIN history : Len(cleaned[p]) # Len(history[p])
       IN  /\ history' = cleaned
           /\ histFile' = IF changed THEN save_history(cleaned, o, histFile) ELSE histFile
           /\ last' = Op("auto_clean", "", "", AUTO_CLEAN_DAYS, Total(history) - Total(cleaned))
    /\ pc' = "run"
    /\ UNCHANGED <<nowT, appends>>
    /\ UNCHANGED <<codecVars, connVars>>

\* lines 153-174 of record_history: the list of peer after the call
Recorded(peer, direction, content, entry_type) ==
    LET appended == Append(ListOf(history, peer),
                           Entry(now, direction, content, entry_type))
    IN  IF entry_type = "ping" THEN EnforcePingCap(appended) ELSE appended

\* the effect of record_history(peer, direction, content, entry_type) on the
\* history variables; the calls are counted, up to MaxAppends
RecordEffect(peer, direction, content, entry_type, o) ==
    /\ appends < MaxAppends
    /\ appends' = appends + 1
    /\ LET lst == Recorded(peer, direction, content, entry_type)
       IN  /\ history' = Put(history, peer, lst)
           /\ histFile' = save_history(Put(history, peer, lst), o, histFile)
           /\ last' = Op("record_history", peer, entry_type, 0,
                         Len(ListOf(history, peer)) + 1 - Len(lst))
    /\ UNCHANGED <<nowT, pc>>

\* record_history(peer, direction, content, entry_type)
record_history(peer, direction, content, entry_type, o) ==
    /\ pc = "run"
    /\ RecordEffect(peer, direction, content, entry_type, o)
    /\ UNCHANGED <<codecVars, connVars>>

\* ChatApp.keep_last_n(n)
keep_last_n(n, o) ==
    /\ pc = "run"
    /\ LET kept == [p \in DOMAIN history |->
                       IF Len(history[p]) > n THEN LastN(history[p], n) ELSE history[p]]
       IN  /\ history' = kept
           /\ histFile' = save_history(kept, o, histFile)
           /\ last' = Op("keep_last_n", "", "", n, Total(history) - Total(kept))
    /\ UNCHANGED <<nowT, pc, appends>>
    /\ UNCHANGED <<codecVars, connVars>>

\* ChatApp.keep_last_days(days)
keep_last_days(days, o) ==
    /\ pc = "run"
    /\ LET cutoff == nowT - (days * TicksPerDay)
           kept   == [p \in DOMAIN history |-> NotBefore(history[p], cutoff)]
       IN  /\ history' = kept
           /\ histFile' = save_history(kept, o, histFile)
           /\ last' = Op("keep_last_days", "", "", days, Total(history) - Total(kept))
    /\ UNCHANGED <<nowT, pc, appends>>
    /\ UNCHANGED <<codecVars, connVars>>

\* ChatApp.clear_history(), the confirmation answered with yes
clear_history(yes, o) ==
    /\ pc = "run"
    /\ IF yes
       THEN /\ history' = EmptyDict
            /\ histFile' = save_history(EmptyDict, o, histFile)
            /\ last' = Op("clear_history", "", "", 1, Total(history))
       ELSE /\ last' = Op("clear_history", "", "", 0, 0)
            /\ UNCHANGED <<history, histFile>>
    /\ UNCHANGED <<nowT, pc, appends>>
    /\ UNCHANGED <<codecVars, connVars>>

\* the clock advances
Tick ==
    /\ nowT < StartTick + MaxTicks
    /\ nowT' = nowT + 1
    /\ UNCHANGED <<history, histFile, pc, last, appends>>
    /\ UNCHANGED <<codecVars, connVars>>

\* the documents chat_history.json may hold when the program starts
DayAgo == StartSec - SecondsPerDay
T(sec) == [k |-> "str", sec |-> sec]
Hi == JStr(<<104, 105>>)

\* more pings than the cap, written by a build with a larger cap
ManyPings ==
    [p \in {"10.0.0.2"} |->
        <<Entry(T(DayAgo), "out", Hi, "ping"), Entry(T(DayAgo), "in", Hi, "msg")>>
        \o [i \in 1..(MAX_PING_RECORDS_PER_PEER + 1) |->
               Entry(T(StartSec - 1), "out", Hi, "ping")]]

\* entries of several ages, one of them written AUTO_CLEAN_DAYS days before
\* the start to the second, and entries whose time is no timestamp
MixedAges ==
    [p \in PeerIPs |->
        IF p = "10.0.0.2"
        THEN <<Entry(T(StartSec - ((AUTO_CLEAN_DAYS + 1) * SecondsPerDay)), "in", Hi, "msg"), Entry(BadTime, "in", Hi, "msg"),
               Entry(T(DayAgo - 1), "in", Hi, "msg"), Entry(NoTime, "out", Hi, "msg"),
               Entry(T(DayAgo), "out", Hi, "msg")>>
        ELSE <<Entry(T(StartSec - (AUTO_CLEAN_DAYS * SecondsPerDay)), "in", Hi, "msg"),
               Entry(T(DayAgo), "in", Hi, "msg")>>]

LoadedHistories == {ManyPings, MixedAges}

InitHistory ==
    /\ histFile \in {FileOf(d) : d \in LoadedHistories}
    /\ history = load_history(histFile)
    /\ nowT = StartTick
    /\ pc = "import"
    /\ last = NoOp
    /\ appends = 0

InitEmptyHistory ==
    /\ histFile = FileAbsent
    /\ history = load_history(histFile)
    /\ nowT = StartTick
    /\ pc = "import"
    /\ last = NoOp
    /\ appends = 0

NextAppend ==
    \/ \E o \in WriteOutcomes : AutoClean(o)
    \/ \E peer \in PeerIPs, direction \in {"in", "out"}, content \in Contents,
          entry_type \in {"msg", "ping"}, o \in WriteOutcomes :
          record_history(peer, direction, content, entry_type, o)

NextHistory ==
    \/ \E o \in WriteOutcomes : AutoClean(o)
    \/ \E peer \in PeerIPs, content \in Contents, o \in WriteOutcomes :
          \/ record_history(peer, "in", content, "msg", o)
          \/ record_history(peer, "out", content, "ping", o)
    \/ \E n \in 0..MaxN, o \in WriteOutcomes : keep_last_n(n, o)
    \/ \E days \in 0..MaxDays, o \in WriteOutcomes : keep_last_days(days, o)
    \/ \E yes \in BOOLEAN, o \in WriteOutcomes : clear_history(yes, o)
    \/ Tick

----------------------------------------------------------------------------
(* The connection handler and the peer registry.  A peer entry is a dict:  *)
(* a function from the keys it has (port, name, online, last_seen) to      *)
(* their values, JSON values but for last_seen, a time as in the history.  *)

MaxQueue == 3

K_port == "port"
K_online == "online"
K_last_seen == "last_seen"

\* "port" not in p or not p.get("port")
NoPort(p) == K_port \notin DOMAIN p \/ ~Truthy(p[K_port])

\* the table peers.json may hold when the program starts: nothing, or both
\* addresses with a port, offline and last seen a second before the start
LoadedPeers ==
    { EmptyDict,
      [a \in PeerIPs |->
          [k \in {K_port, K_online, K_last_seen} |->
              IF k = K_port THEN JInt(6000)
              ELSE IF k = K_online THEN JFalse
              ELSE [k |-> "str", sec |-> StartSec - 1]]] }

\* the address the connections of the handler scenario come from
Senders == {"10.0.0.2"}

\* save_peers(peers): as save_history, a failure is logged and swallowed
save_peers(table, o, file) == IF o = "written" THEN FileOf(table) ELSE FileStale

\* a callback that loses the text of the message
DisplayCallNoText(ip, msg) == [f |-> "display_incoming", ip |-> ip, msg |-> JNull]

\* the callbacks handed to root.after(0, ...)
RefreshCall == [f |-> "refresh_peers", ip |-> "", msg |-> JNull]
DisplayCall(ip, msg) == [f |-> "display_incoming", ip |-> ip, msg |-> msg]

NoConn == [ip |-> "", obj |-> Raised("none", <<>>), had |-> EmptyDict,
           known |-> FALSE, sent |-> <<>>, acts |-> <<>>]

\* a port rule that takes the latest port whatever the entry holds
WithPortOverwrite(table, ip, port) ==
    Put(IF ip \in DOMAIN table THEN table[ip] ELSE EmptyDict, K_port, port)

\* p = self.peers.setdefault(ip, {}) followed by the port rule of lines
\* 891-892, 913-914, 925-926, 947-948 and 968-969
WithPort(table, ip, port) ==
    LET p == IF ip \in DOMAIN table THEN table[ip] ELSE EmptyDict
    IN  IF NoPort(p) THEN Put(p, K_port, port) ELSE p

\* the name block, lines 884-904: the table after it
NameBlock(table, ip, sport, obj) ==
    Put(table, ip,
        Put(Put(Put(WithPort(table, ip, JInt(sport)), "name", DictGet(obj, K_name, JNull)),
                K_online, JTrue),
            K_last_seen, now))

\* a handler without the name block
NamedNever(obj) == FALSE

\* lines 885-887: the object is a dict with a name that is not empty
Named(obj) == IsDict(obj) /\ Truthy(DictGet(obj, K_name, JNull))

\* a ping or pong branch that leaves last_seen alone
SeenOnlineOnly(table, ip, sport) ==
    Put(table, ip, Put(WithPort(table, ip, JInt(sport)), K_online, JTrue))

\* lines 911-916 and 923-928: the table after a ping or a pong
Seen(table, ip, sport) ==
    Put(table, ip, Put(Put(WithPort(table, ip, JInt(sport)), K_online, JTrue),
                       K_last_seen, now))

\* lines 945-949 and 966-970: the table after a message that names its port
Claimed(table, ip, sender_port) ==
    Put(table, ip, Put(WithPort(table, ip, sender_port), K_online, JTrue))

\* lines 935-940: int(obj["from_port"]) where that works, else the value
SenderPort(obj) ==
    IF ~HasKey(obj, K_from_port) THEN JNull
    ELSE LET v == DictGet(obj, K_from_port, JNull)
         IN  CASE v.t = "int" -> v
               [] v.t = "true" -> JInt(1)
               [] v.t = "false" -> JInt(0)
               [] v.t = "str" /\ v.s # <<>> /\ Len(v.s) <= 9
                     /\ (\A i \in 1..Len(v.s) : IsDigit(v.s[i]))
                     -> JInt(DigitsValue(v.s, 1, Len(v.s) + 1))
               [] OTHER -> v

\* a chain of tests that looks at msg first
ClassifyMsgFirst(obj) ==
    IF IsDict(obj) /\ HasKey(obj, K_msg) THEN "msg"
    ELSE IF IsDict(obj) /\ HasKey(obj, K_ping) THEN "ping"
    ELSE IF IsDict(obj) /\ HasKey(obj, K_pong) THEN "pong"
    ELSE "unknown"

\* a handler that takes the probe marker for an ordinary text
IsTestReplyNever(msg) == FALSE

\* line 943: msg == "__TEST_REPLY__"
IsTestReply(msg) == msg = JStr(TEST_REPLY)

\* lines 907, 922, 933 and 980: the branch taken for a decoded object
Classify(obj) ==
    IF IsDict(obj) /\ HasKey(obj, K_ping) THEN "ping"
    ELSE IF IsDict(obj) /\ HasKey(obj, K_pong) THEN "pong"
    ELSE IF IsDict(obj) /\ HasKey(obj, K_msg) THEN "msg"
    ELSE "unknown"

\* what remote hosts send in the handler scenario, a numbered list of byte
\* strings: plain envelopes (a ping, a pong, chat messages with and without a
\* port and a name, the text of test_connection, objects with none of the
\* three keys, with several of them, and a number), one envelope packed with
\* the key "k", bytes that are no JSON, nothing, bytes that are no UTF-8, and
\* an envelope under the key "k" whose tag is the hash of the plaintext
HiText == <<104, 105>>
InboundObjs ==
    << PingObj, PongObj,
       ChatObj(HiText, 5050), NamedChatObj(HiText, 5050, <<66>>),
       ChatObj(TEST_REPLY, 5050), ChatObj(HiText, 0),
       JObj(<<Member(<<120>>, JInt(1))>>),
       JObj(<<Member(K_name, JStr(<<66>>)), Member(<<120>>, JInt(1))>>),
       JInt(5),
       JObj(<<Member(K_msg, JStr(HiText))>>),
       JObj(<<Member(K_msg, JStr(TEST_REPLY))>>),
       JObj(<<Member(K_msg, JStr(HiText)), Member(K_from_port, JInt(5050)),
              Member(K_pong, JInt(1)), Member(K_ping, JInt(1))>>),
       JObj(<<Member(K_msg, JStr(HiText)), Member(K_from_port, JInt(5050)),
              Member(K_pong, JInt(1))>>) >>
Inbound ==
    [i \in 1..Len(InboundObjs) |-> pack_payload(<<>>, InboundObjs[i])]
        \o <<pack_payload(<<107>>, ChatObj(HiText, 5050)), <<104, 105>>, <<>>,
              <<255>>, Crafted(<<107>>, ChatObj(HiText, 5050), "tag of plaintext")>>
HandlerKeys == {<<>>, <<107>>}
SourcePorts == {40001}

\* unpack_payload and the reply of line 910, tabulated over the keys and the
\* byte strings of the scenario
\* a reply that is never wrapped
pong_table_plain == [k \in HandlerKeys |-> pack_payload(<<>>, PongObj)]

unpack_table ==
    [k \in HandlerKeys |-> [d \in DOMAIN Inbound |-> unpack_payload(k, Inbound[d])]]
pong_table == [k \in HandlerKeys |-> pack_payload(k, PongObj)]

\* what surrounds one run of the handler: all is well, the writes to the
\* files fail, or conn.send fails (drawn for the runs that send)
HandlerEnvs == {"ok", "write fails", "send fails"}

\* the registry side of one run of handle_conn: the table it leaves, whether
\* it called save_peers, the callbacks it scheduled, what it sent
Handled(ip, r, table, saved, calls, sent, acts, o) ==
    /\ peers' = table
    /\ peersFile' = IF saved THEN save_peers(table, o, peersFile) ELSE peersFile
    /\ uiQueue' = uiQueue \o calls
    /\ conn' = [ip |-> ip, obj |-> r,
                had |-> IF ip \in DOMAIN peers THEN peers[ip] ELSE EmptyDict,
                known |-> ip \in DOMAIN peers, sent |-> sent, acts |-> acts]
    /\ UNCHANGED <<mon, thrVars>>

\* a handler that counts every connection as a sign of life of its sender
HandleDecodedTouching(ip, sport, r, pong, env) ==
    /\ pc = "run"
    /\ Len(uiQueue) + 3 <= MaxQueue
    /\ env # "send fails"
    /\ UNCHANGED <<codecVars, histVars>>
    /\ Handled(ip, r, Seen(peers, ip, sport), TRUE, <<>>, <<>>, <<"recv", "close">>,
               IF env = "write fails" THEN "failed" ELSE "written")

\* lines 875-989 of handle_conn: r is what unpack_payload made of the bytes
\* received, pong the bytes pack_payload makes of the reply
HandleDecoded(ip, sport, r, pong, env) ==
    LET o     == IF env = "write fails" THEN "failed" ELSE "written"
        obj   == r.val
        named == Named(obj)
        t1    == IF named THEN NameBlock(peers, ip, sport, obj) ELSE peers
        q1    == IF named THEN <<RefreshCall>> ELSE <<>>
        a1    == <<"recv", "unpack">>
                   \o (IF named THEN <<"name", "save_peers">> ELSE <<>>)
        kind  == Classify(obj)
        msg   == DictGet(obj, K_msg, JNull)
        port  == SenderPort(obj)
        t2    == IF Truthy(port) THEN Claimed(t1, ip, port) ELSE t1
        a2    == IF Truthy(port) THEN <<"peers", "save_peers">> ELSE <<>>
    IN  /\ pc = "run"
        /\ Len(uiQueue) + 3 <= MaxQueue
        /\ env = "send fails" => (r.ok /\ kind = "ping")
        /\ UNCHANGED codecVars
        /\ IF ~r.ok
           THEN /\ Handled(ip, r, peers, FALSE, <<>>, <<>>, <<"recv", "close">>, o)
                /\ UNCHANGED histVars
           ELSE IF kind = "ping" /\ env = "send fails"
           THEN /\ Handled(ip, r, t1, named, q1, <<>>, a1 \o <<"send", "close">>, o)
                /\ UNCHANGED histVars
           ELSE IF kind = "ping"
           THEN /\ Handled(ip, r, Seen(t1, ip, sport), TRUE, q1, pong,
                           a1 \o <<"send", "peers", "save_peers", "close">>, o)
                /\ UNCHANGED histVars
           ELSE IF kind = "pong"
           THEN /\ Handled(ip, r, Seen(t1, ip, sport), TRUE, q1, <<>>,
                           a1 \o <<"peers", "save_peers", "close">>, o)
                /\ UNCHANGED histVars
           ELSE IF kind = "msg" /\ IsTestReply(msg)
           THEN /\ Handled(ip, r, t2, named \/ Truthy(port), q1 \o <<RefreshCall>>, <<>>,
                           (a1 \o a2) \o <<"close">>, o)
                /\ UNCHANGED histVars
           ELSE IF kind = "msg"
           THEN /\ Handled(ip, r, t2, named \/ Truthy(port),
                           q1 \o <<RefreshCall, DisplayCall(ip, msg)>>, <<>>,
                           ((a1 \o <<"record_history">>) \o a2) \o <<"close">>, o)
                /\ RecordEffect(ip, "in", msg, "msg", o)
           ELSE /\ Handled(ip, r, t1, named, q1, <<>>, a1 \o <<"close">>, o)
                /\ UNCHANGED histVars

\* ChatApp.handle_conn(conn, addr) with addr = (ip, sport), conn.recv giving
\* the byte string Inbound[d]
handle_conn(ip, sport, d, env) ==
    HandleDecoded(ip, sport,
                  IF Inbound[d] = <<>> THEN Raised("empty read", <<>>)
                  ELSE unpack_table[SHARED_KEY][d],
                  pong_table[SHARED_KEY], env)

\* the UI thread runs the callback at the head of the queue: refresh_peers
\* draws the list and changes nothing else
refresh_peers ==
    /\ uiQueue # <<>>
    /\ Head(uiQueue).f = "refresh_peers"
    /\ uiQueue' = Tail(uiQueue)
    /\ UNCHANGED <<peers, peersFile, conn, mon>>
    /\ UNCHANGED <<codecVars, histVars, thrVars>>

\* ChatApp.display_incoming(ip, msg), run by the UI thread from the queue
display_incoming ==
    /\ uiQueue # <<>>
    /\ Head(uiQueue).f = "display_incoming"
    /\ uiQueue' = Tail(uiQueue)
    /\ peers' = IF Head(uiQueue).ip \in DOMAIN peers THEN peers
                ELSE Put(peers, Head(uiQueue).ip,
                         [k \in {K_port, K_online} |->
                             IF k = K_port THEN JInt(0) ELSE JTrue])
    /\ UNCHANGED <<peersFile, conn, mon>>
    /\ UNCHANGED <<codecVars, histVars, thrVars>>

----------------------------------------------------------------------------
(* Threads.  listen_thread starts one thread per connection; the handlers, *)
(* the monitor and the UI thread share the table self.peers, the global    *)
(* history and the two files.  Here a handler is followed statement by     *)
(* statement from its first access to what is shared: the interpreter may  *)
(* switch threads between any two of these statements.  save_peers and     *)
(* save_history are two steps each: open(..., "w") empties the file and    *)
(* json.dump fills the buffer of the file object from the document as it   *)
(* is then, and leaving the with block writes the buffer out.  The table   *)
(* has no lock; the history has history_lock.                              *)

\* how many entries the handlers of the thread scenario append in all
MaxThreadAppends == 2

NoThread == ""

\* get_local_ip() at line 311: the address this host starts with
LocalAddress == "10.0.0.1"
Handlers == {"h1", "h2"}
UIThread == "ui"
Threads == Handlers \cup {UIThread}

\* a thread that runs nothing: f the function it is in, ip and d the address
\* and the bytes of its connection (0 while nothing has come), reads how
\* often conn.recv returned, obj what unpack_payload made of the bytes,
\* n its argument, buf the document json.dump serialised, todo and new_lst
\* the loop over list(history.items())
Idle ==
    [pc |-> "idle", f |-> "", ip |-> "", d |-> 0, reads |-> 0, obj |-> JNull, n |-> 0,
     buf |-> EmptyDict, todo |-> <<>>, new_lst |-> <<>>]

\* listen_thread inside its while loop, no exception caught so far
Accepting == [st |-> "accepting", err |-> "none"]

\* the connections of the thread scenario carry a pong or {"msg": "hi"}
ThreadInbound == {2, 10}

At(t, f, label) == threads[t].f = f /\ threads[t].pc = label
Goto(t, label) == [threads EXCEPT ![t].pc = label]

\* the handler h has a call of record_history before it
WillAppend(h) ==
    /\ threads[h].f = "handle_conn"
    /\ threads[h].pc \in {"branch", "acquire", "locked"}

\* lines 851-854: accept returns a connection from ip whose bytes will be
\* Inbound[d], and the thread t is started on it.  The thread reads and
\* unpacks the bytes (line 876) and stands before the branch of lines 906-981
accept(t, ip, d) ==
    /\ pc = "run"
    /\ listener.st = "accepting"
    /\ threads[t].pc = "idle"
    /\ appends + Cardinality({h \in Handlers : WillAppend(h)}) < MaxThreadAppends
    /\ threads' = [threads EXCEPT ![t] =
                       [Idle EXCEPT !.pc = "branch", !.f = "handle_conn",
                                    !.ip = ip, !.d = d,
                                    !.obj = unpack_table[SHARED_KEY][d].val]]
    /\ UNCHANGED <<listener, history_lock, local_ip>>
    /\ UNCHANGED <<peers, peersFile, uiQueue, conn, mon>>
    /\ UNCHANGED <<codecVars, histVars>>

\* lines 855-859: sock.accept() raises an OSError and the loop is left, or
\* Thread.start() raises a RuntimeError, which is logged
accept_raises(e) ==
    /\ pc = "run"
    /\ listener.st = "accepting"
    /\ listener' = [st |-> IF e = "OSError" THEN "ended" ELSE "accepting", err |-> e]
    /\ UNCHANGED <<history_lock, threads, local_ip>>
    /\ UNCHANGED <<peers, peersFile, uiQueue, conn, mon>>
    /\ UNCHANGED <<codecVars, histVars>>

\* lines 922 and 933: the handler takes the branch of its object, up to the
\* first statement that touches the table or the history
h_branch(t) ==
    /\ At(t, "handle_conn", "branch")
    /\ LET kind == Classify(threads[t].obj)
       IN  threads' = Goto(t, IF kind = "pong" THEN "setdefault" ELSE "acquire")
    /\ UNCHANGED <<listener, history_lock, local_ip>>
    /\ UNCHANGED <<peers, peersFile, uiQueue, conn, mon>>
    /\ UNCHANGED <<codecVars, histVars>>

\* line 923: p = self.peers.setdefault(ip, {})
h_setdefault(t) ==
    /\ At(t, "handle_conn", "setdefault")
    /\ peers' = IF threads[t].ip \in DOMAIN peers THEN peers
                ELSE Put(peers, threads[t].ip, EmptyDict)
    /\ threads' = Goto(t, "port")
    /\ UNCHANGED <<listener, history_lock, local_ip>>
    /\ UNCHANGED <<peersFile, uiQueue, conn, mon>>
    /\ UNCHANGED <<codecVars, histVars>>

\* lines 925-926: the port rule
h_port(t, sport) ==
    /\ At(t, "handle_conn", "port")
    /\ peers' = Put(peers, threads[t].ip, WithPort(peers, threads[t].ip, JInt(sport)))
    /\ threads' = Goto(t, "online")
    /\ UNCHANGED <<listener, history_lock, local_ip>>
    /\ UNCHANGED <<peersFile, uiQueue, conn, mon>>
    /\ UNCHANGED <<codecVars, histVars>>

\* line 927: p["online"] = True
h_online(t) ==
    /\ At(t, "handle_conn", "online")
    /\ peers' = Put(peers, threads[t].ip, Put(peers[threads[t].ip], K_online, JTrue))
    /\ threads' = Goto(t, "last_seen")
    /\ UNCHANGED <<listener, history_lock, local_ip>>
    /\ UNCHANGED <<peersFile, uiQueue, conn, mon>>
    /\ UNCHANGED <<codecVars, histVars>>

\* line 928: p["last_seen"] = datetime.now().strftime(...)
h_last_seen(t) ==
    /\ At(t, "handle_conn", "last_seen")
    /\ peers' = Put(peers, threads[t].ip, Put(peers[threads[t].ip], K_last_seen, now))
    /\ threads' = Goto(t, "save_peers")
    /\ UNCHANGED <<listener, history_lock, local_ip>>
    /\ UNCHANGED <<peersFile, uiQueue, conn, mon>>
    /\ UNCHANGED <<codecVars, histVars>>

\* lines 96-97 of save_peers, called at line 929: the file is opened, which
\* empties it, and the table is serialised as it is at that moment
sp_dump(t) ==
    /\ At(t, "handle_conn", "save_peers")
    /\ peersFile' = FileStale
    /\ threads' = [threads EXCEPT ![t].pc = "close_peers", ![t].buf = peers]
    /\ UNCHANGED <<listener, history_lock, local_ip>>
    /\ UNCHANGED <<peers, uiQueue, conn, mon>>
    /\ UNCHANGED <<codecVars, histVars>>

\* the end of the with block of save_peers: the buffer goes to the file; then
\* the handler returns and closes its connection (lines 985-989)
sp_close(t, o) ==
    /\ At(t, "handle_conn", "close_peers")
    /\ peersFile' = save_peers(threads[t].buf, o, peersFile)
    /\ threads' = [threads EXCEPT ![t] = Idle]
    /\ UNCHANGED <<listener, history_lock, local_ip>>
    /\ UNCHANGED <<peers, uiQueue, conn, mon>>
    /\ UNCHANGED <<codecVars, histVars>>

\* a lock that any thread may take at any time
CanAcquireAlways(lock) == TRUE

\* threading.Lock: it can be taken when no thread holds it
CanAcquire(lock) == lock = NoThread

\* with history_lock: of lines 151, 1250, 1266 and 1286; the thread waits
\* until the lock is free
acquire(t) ==
    /\ threads[t].pc = "acquire"
    /\ CanAcquire(history_lock)
    /\ history_lock' = t
    /\ threads' = Goto(t, "locked")
    /\ UNCHANGED <<listener, local_ip>>
    /\ UNCHANGED <<peers, peersFile, uiQueue, conn, mon>>
    /\ UNCHANGED <<codecVars, histVars>>

\* lines 153-160 of record_history(ip, "in", msg, "msg"), called at line 959:
\* the entry is appended to the list of the peer
rh_append(t) ==
    /\ At(t, "handle_conn", "locked")
    /\ history' = Put(history, threads[t].ip,
                      Append(ListOf(history, threads[t].ip),
                             Entry(now, "in",
                                   DictGet(threads[t].obj, K_msg, JNull),
                                   "msg")))
    /\ appends' = appends + 1
    /\ threads' = Goto(t, "save_history")
    /\ UNCHANGED <<histFile, nowT, pc, last>>
    /\ UNCHANGED <<listener, history_lock, local_ip>>
    /\ UNCHANGED <<peers, peersFile, uiQueue, conn, mon>>
    /\ UNCHANGED codecVars

\* the user asks for keep_last_days(n), keep_last_n(n) or clear_history()
\* and confirms: the UI thread runs up to the with statement
ui_call(f, n) ==
    /\ pc = "run"
    /\ threads[UIThread].pc = "idle"
    /\ threads' = [threads EXCEPT ![UIThread] = [Idle EXCEPT !.pc = "acquire", !.f = f, !.n = n]]
    /\ UNCHANGED <<listener, history_lock, local_ip>>
    /\ UNCHANGED <<peers, peersFile, uiQueue, conn, mon>>
    /\ UNCHANGED <<codecVars, histVars>>

\* lines 1267 and 1287: list(history.items()), the peers in the order of the
\* dict; the model keeps no order for the dict, and order is any one
h_items(t, order) ==
    /\ \/ At(t, "keep_last_days", "locked")
       \/ At(t, "keep_last_n", "locked")
    /\ threads' = [threads EXCEPT ![t].todo = order,
                                  ![t].pc = IF order = <<>> THEN "save_history" ELSE "loop"]
    /\ UNCHANGED <<listener, history_lock, local_ip>>
    /\ UNCHANGED <<peers, peersFile, uiQueue, conn, mon>>
    /\ UNCHANGED <<codecVars, histVars>>

\* lines 1288-1297 of keep_last_days: new_lst is built from the list of the
\* peer at the head of the loop
kd_iter(t) ==
    /\ At(t, "keep_last_days", "loop")
    /\ threads' = [threads EXCEPT
                      ![t].new_lst = NotBefore(ListOf(history, Head(threads[t].todo)),
                                               nowT - (threads[t].n * TicksPerDay)),
                      ![t].pc = "assign"]
    /\ UNCHANGED <<listener, history_lock, local_ip>>
    /\ UNCHANGED <<peers, peersFile, uiQueue, conn, mon>>
    /\ UNCHANGED <<codecVars, histVars>>

\* line 1298: history[peer] = new_lst
kd_assign(t) ==
    /\ At(t, "keep_last_days", "assign")
    /\ history' = Put(history, Head(threads[t].todo), threads[t].new_lst)
    /\ threads' = [threads EXCEPT ![t].todo = Tail(@), ![t].new_lst = <<>>,
                                  ![t].pc = IF Tail(threads[t].todo) = <<>>
                                            THEN "save_history" ELSE "loop"]
    /\ UNCHANGED <<histFile, nowT, pc, last, appends>>
    /\ UNCHANGED <<listener, history_lock, local_ip>>
    /\ UNCHANGED <<peers, peersFile, uiQueue, conn, mon>>
    /\ UNCHANGED codecVars

\* lines 1268-1270 of keep_last_n: if len(lst) > n: history[peer] = lst[-n:]
kn_assign(t) ==
    /\ At(t, "keep_last_n", "loop")
    /\ LET peer == Head(threads[t].todo)
           lst  == ListOf(history, peer)
       IN  history' = IF Len(lst) > threads[t].n
                      THEN Put(history, peer, LastN(lst, threads[t].n))
                      ELSE history
    /\ threads' = [threads EXCEPT ![t].todo = Tail(@),
                                  ![t].pc = IF Tail(threads[t].todo) = <<>>
                                            THEN "save_history" ELSE "loop"]
    /\ UNCHANGED <<histFile, nowT, pc, last, appends>>
    /\ UNCHANGED <<listener, history_lock, local_ip>>
    /\ UNCHANGED <<peers, peersFile, uiQueue, conn, mon>>
    /\ UNCHANGED codecVars

\* line 1251: history.clear()
cl_clear(t) ==
    /\ At(t, "clear_history", "locked")
    /\ history' = EmptyDict
    /\ threads' = Goto(t, "save_history")
    /\ UNCHANGED <<histFile, nowT, pc, last, appends>>
    /\ UNCHANGED <<listener, history_lock, local_ip>>
    /\ UNCHANGED <<peers, peersFile, uiQueue, conn, mon>>
    /\ UNCHANGED codecVars

\* lines 107-108 of save_history: the file is opened, which empties it, and
\* the history is serialised as it is at that moment
sh_dump(t) ==
    /\ threads[t].pc = "save_history"
    /\ histFile' = FileStale
    /\ threads' = [threads EXCEPT ![t].pc = "close_history", ![t].buf = history]
    /\ UNCHANGED <<history, nowT, pc, last, appends>>
    /\ UNCHANGED <<listener, history_lock, local_ip>>
    /\ UNCHANGED <<peers, peersFile, uiQueue, conn, mon>>
    /\ UNCHANGED codecVars

\* the end of the with block of save_history: the buffer goes to the file
sh_close(t, o) ==
    /\ threads[t].pc = "close_history"
    /\ histFile' = save_history(threads[t].buf, o, histFile)
    /\ threads' = [threads EXCEPT ![t].pc = "release", ![t].buf = EmptyDict]
    /\ UNCHANGED <<history, nowT, pc, last, appends>>
    /\ UNCHANGED <<listener, history_lock, local_ip>>
    /\ UNCHANGED <<peers, peersFile, uiQueue, conn, mon>>
    /\ UNCHANGED codecVars

\* the end of the with history_lock block: the lock is free again.  The UI
\* thread shows its message box; the handler hands display_incoming to
\* root.after (that callback is followed in handle_conn above, not here)
\* and closes its connection
release(t) ==
    /\ threads[t].pc = "release"
    /\ history_lock' = NoThread
    /\ threads' = [threads EXCEPT ![t] = Idle]
    /\ UNCHANGED <<listener, local_ip>>
    /\ UNCHANGED <<peers, peersFile, uiQueue, conn, mon>>
    /\ UNCHANGED <<codecVars, histVars>>

\* full_refresh with the local address unchanged: refresh_peers, called in
\* the UI thread, draws a row for each item of self.peers (lines 506-522);
\* buf keeps the table as drawn
full_refresh ==
    /\ pc = "run"
    /\ threads[UIThread].pc = "idle"
    /\ threads' = [threads EXCEPT ![UIThread] = [Idle EXCEPT !.f = "refresh_peers",
                                                             !.buf = peers]]
    /\ UNCHANGED <<listener, history_lock, local_ip>>
    /\ UNCHANGED <<peers, peersFile, uiQueue, conn, mon>>
    /\ UNCHANGED <<codecVars, histVars>>

\* The read of the handler.  The socket accept returns has no timeout (none
\* is set on it or on the listening socket, and socket.setdefaulttimeout is
\* not called), so conn.recv returns when bytes have come or when the remote
\* host has closed its side, and not before.

\* what the remote host of the read scenario does with its connection: it
\* sends a pong, {"msg": "hi"} or bytes that are no JSON, or closes without
\* sending (the read is then empty)
ReadInbound == {2, 10, Len(InboundObjs) + 2, Len(InboundObjs) + 3}

\* lines 851-854: accept returns a connection from ip and the thread t is
\* started on it; it stands at conn.recv, line 869
accept_conn(t, ip) ==
    /\ pc = "run"
    /\ listener.st = "accepting"
    /\ threads[t].pc = "idle"
    /\ threads' = [threads EXCEPT ![t] =
                       [Idle EXCEPT !.pc = "recv", !.f = "handle_conn", !.ip = ip]]
    /\ UNCHANGED <<listener, history_lock, local_ip>>
    /\ UNCHANGED <<peers, peersFile, uiQueue, conn, mon>>
    /\ UNCHANGED <<codecVars, histVars>>

\* the remote host sends the bytes Inbound[d], or closes its side
remote_sends(t, d) ==
    /\ At(t, "handle_conn", "recv")
    /\ threads[t].d = 0
    /\ d = 10 => appends + Cardinality({h \in Handlers :
                                          \/ WillAppend(h)
                                          \/ At(h, "handle_conn", "recv") /\ threads[h].d = 10})
                     < MaxThreadAppends
    /\ threads' = [threads EXCEPT ![t].d = d]
    /\ UNCHANGED <<listener, history_lock, local_ip>>
    /\ UNCHANGED <<peers, peersFile, uiQueue, conn, mon>>
    /\ UNCHANGED <<codecVars, histVars>>

\* lines 869-881: conn.recv(8192) returns, and r is what becomes of the
\* bytes.  On an empty read and on a failure of unpack_payload the connection
\* is closed and the handler returns
h_recv(t, r) ==
    /\ At(t, "handle_conn", "recv")
    /\ threads[t].d # 0
    /\ threads' = IF ~r.ok
                  THEN [threads EXCEPT ![t] = Idle]
                  ELSE [threads EXCEPT ![t].pc = "branch", ![t].obj = r.val,
                                       ![t].reads = @ + 1]
    /\ UNCHANGED <<listener, history_lock, local_ip>>
    /\ UNCHANGED <<peers, peersFile, uiQueue, conn, mon>>
    /\ UNCHANGED <<codecVars, histVars>>

\* the statements of the handler thread t, from its read to its return
HandlerStep(t) ==
    \/ h_recv(t, IF Inbound[threads[t].d] = <<>> THEN Raised("empty read", <<>>)
                 ELSE unpack_table[SHARED_KEY][threads[t].d])
    \/ h_branch(t)
    \/ h_setdefault(t)
    \/ \E sport \in SourcePorts : h_port(t, sport)
    \/ h_online(t)
    \/ h_last_seen(t)
    \/ sp_dump(t)
    \/ \E o \in WriteOutcomes : sp_close(t, o)
    \/ acquire(t)
    \/ rh_append(t)
    \/ sh_dump(t)
    \/ \E o \in WriteOutcomes : sh_close(t, o)
    \/ release(t)

\* the permutations of a set, as sequences
Orders(S) ==
    {f \in [1..Cardinality(S) -> S] : \A x, y \in 1..Cardinality(S) : f[x] = f[y] => x = y}

----------------------------------------------------------------------------
(* The liveness monitor, the thread of check_peers_online.  A scan walks   *)
(* list(self.peers.items()): pairs (ip, info) where info is the dict the   *)
(* table held for ip when the scan began.  That dict is the entry of the   *)
(* table (live) until manual_connect puts a new dict in its place; from    *)
(* then on the scan alone holds it (d).  The 60 seconds of line 1156 are   *)
(* scaled to RecentSeconds.                                                *)

RecentSeconds == 0

\* the monitor between two scans
NoScan ==
    [st |-> "sleep", snap |-> <<>>, todo |-> <<>>,
     cur |-> [ip |-> "", live |-> FALSE, d |-> EmptyDict], ok |-> JNull, log |-> <<>>]

\* lines 1152-1162: neither of the two continue statements is taken.
\* timedelta.seconds is the whole seconds of the difference without its days
Eligible(info) ==
    LET seen    == IF K_last_seen \in DOMAIN info THEN info[K_last_seen] ELSE NoTime
        elapsed == ((nowT - strptime(seen).t) \div TicksPerSecond) % SecondsPerDay
    IN  /\ ~(strptime(seen).ok /\ elapsed > RecentSeconds)
        /\ ~NoPort(info)

\* a probe without its except clause: the error of the connection gets out
ping_peer_unguarded(table, ip, refused, r) ==
    IF refused \/ ~r.ok
    THEN [ok |-> JFalse, raised |-> TRUE, table |-> table, saved |-> FALSE]
    ELSE IF IsDict(r.val) /\ Truthy(DictGet(r.val, K_pong, JNull))
    THEN [ok |-> JTrue, raised |-> FALSE,
          table |-> IF ip \in DOMAIN table
                    THEN Put(table, ip, Put(Put(table[ip], K_online, JTrue), K_last_seen, now))
                    ELSE table,
          saved |-> ip \in DOMAIN table]
    ELSE [ok |-> JNull, raised |-> FALSE, table |-> table, saved |-> FALSE]

\* ChatApp.ping_peer(ip, port): refused stands for an exception of connect,
\* send or recv, r for what unpack_payload makes of the reply ({} when the
\* reply is empty).  The value returned (None when the reply is no pong),
\* whether an exception leaves the function, the table, whether save_peers ran
ping_peer(table, ip, refused, r) ==
    IF refused \/ ~r.ok
    THEN [ok |-> JFalse, raised |-> FALSE,
          table |-> IF ip \in DOMAIN table
                    THEN Put(table, ip, Put(table[ip], K_online, JFalse))
                    ELSE table,
          saved |-> ip \in DOMAIN table]
    ELSE IF IsDict(r.val) /\ Truthy(DictGet(r.val, K_pong, JNull))
    THEN [ok |-> JTrue, raised |-> FALSE,
          table |-> IF ip \in DOMAIN table
                    THEN Put(table, ip, Put(Put(table[ip], K_online, JTrue), K_last_seen, now))
                    ELSE table,
          saved |-> ip \in DOMAIN table]
    ELSE [ok |-> JNull, raised |-> FALSE, table |-> table, saved |-> FALSE]

\* line 1151: the snapshot of the table, in the order of the dict; the model
\* keeps no order for the table, and order is any one
ScanStart(order) ==
    /\ pc = "run"
    /\ mon.st = "sleep"
    /\ mon' = [st |-> "scan", snap |-> order,
               todo |-> [j \in DOMAIN order |-> [ip |-> order[j], live |-> TRUE, d |-> EmptyDict]],
               cur |-> NoScan.cur, ok |-> JNull, log |-> <<>>]
    /\ UNCHANGED <<peers, peersFile, uiQueue, conn>>
    /\ UNCHANGED <<codecVars, histVars, thrVars>>

\* lines 1152-1163, one turn of the for loop up to the return of ping_peer:
\* the peer is passed over, or probed.  An exception that leaves ping_peer
\* leaves the while loop too and ends the thread
ProbePeer(refused, r, o) ==
    /\ mon.st = "scan"
    /\ mon.todo # <<>>
    /\ LET i    == Head(mon.todo)
           info == IF i.live THEN peers[i.ip] ELSE i.d
           res  == ping_peer(peers, i.ip, refused, r)
           net  == IF refused THEN "refused" ELSE IF r.ok THEN "reply" ELSE "bad reply"
       IN  IF ~Eligible(info)
           THEN /\ mon' = [mon EXCEPT !.todo = Tail(@),
                                      !.log = Append(@, [ip |-> i.ip, net |-> "none", ok |-> JNull])]
                /\ UNCHANGED <<peers, peersFile>>
           ELSE /\ mon' = [mon EXCEPT !.st = IF res.raised THEN "dead" ELSE "probed",
                                      !.todo = Tail(@), !.cur = i, !.ok = res.ok,
                                      !.log = Append(@, [ip |-> i.ip, net |-> net, ok |-> res.ok])]
                /\ peers' = res.table
                /\ peersFile' = IF res.saved THEN save_peers(res.table, o, peersFile)
                                ELSE peersFile
    /\ UNCHANGED <<uiQueue, conn>>
    /\ UNCHANGED <<codecVars, histVars, thrVars>>

\* lines 1165-1166: info["online"] = ok and root.after(0, self.refresh_peers)
SetOnline ==
    /\ mon.st = "probed"
    /\ Len(uiQueue) < MaxQueue
    /\ IF mon.cur.live
       THEN peers' = Put(peers, mon.cur.ip, Put(peers[mon.cur.ip], K_online, mon.ok))
       ELSE peers' = peers
    /\ mon' = [mon EXCEPT !.st = "scan", !.cur = NoScan.cur, !.ok = JNull]
    /\ uiQueue' = Append(uiQueue, RefreshCall)
    /\ UNCHANGED <<peersFile, conn>>
    /\ UNCHANGED <<codecVars, histVars, thrVars>>

\* lines 1170-1173: the list is drawn, the thread sleeps CHECK_INTERVAL
ScanEnd ==
    /\ mon.st = "scan"
    /\ mon.todo = <<>>
    /\ mon' = NoScan
    /\ UNCHANGED <<peers, peersFile, uiQueue, conn>>
    /\ UNCHANGED <<codecVars, histVars, thrVars>>

\* ChatApp.manual_connect(), the dialog answered with ip:port: the table gets
\* a new dict for ip, and a scan that holds the old one keeps it
manual_connect(ip, port) ==
    /\ pc = "run"
    /\ peers' = Put(peers, ip, [k \in {K_port, K_online} |->
                                   IF k = K_port THEN JInt(port) ELSE JTrue])
    /\ LET Kept(i) == IF i.live /\ i.ip = ip
                      THEN [ip |-> ip, live |-> FALSE, d |-> peers[ip]]
                      ELSE i
       IN  mon' = [mon EXCEPT !.todo = [j \in DOMAIN @ |-> Kept(@[j])],
                              !.cur = Kept(@)]
    /\ UNCHANGED <<peersFile, uiQueue, conn>>
    /\ UNCHANGED <<codecVars, histVars, thrVars>>

\* self.peers.pop(ip)
Pop(table, ip) == [a \in DOMAIN table \ {ip} |-> table[a]]

\* a scan that walks the table keeps the dict it holds for ip when the table
\* lets go of it
Detached(ip) ==
    LET Kept(i) == IF i.live /\ i.ip = ip
                   THEN [ip |-> ip, live |-> FALSE, d |-> peers[ip]]
                   ELSE i
    IN  [mon EXCEPT !.todo = [j \in DOMAIN @ |-> Kept(@[j])], !.cur = Kept(@)]

\* an address change that starts the table afresh
check_local_ip_change_afresh(current_ip, o) ==
    /\ pc = "run"
    /\ local_ip' = current_ip
    /\ IF current_ip # local_ip
       THEN /\ peers' = EmptyDict
            /\ peersFile' = save_peers(EmptyDict, o, peersFile)
            /\ mon' = NoScan
       ELSE UNCHANGED <<peers, peersFile, mon>>
    /\ UNCHANGED <<uiQueue, conn>>
    /\ UNCHANGED <<listener, history_lock, threads>>
    /\ UNCHANGED <<codecVars, histVars>>

\* ChatApp.check_local_ip_change(), called every 5 s by auto_check_ip and by
\* full_refresh: current_ip is what get_local_ip() returns.  When it differs
\* from self.local_ip, the entry of the old address is popped, when there is
\* one, and the table is saved and drawn
check_local_ip_change(current_ip, o) ==
    /\ pc = "run"
    /\ local_ip' = current_ip
    /\ IF current_ip # local_ip
       THEN /\ peers' = Pop(peers, local_ip)
            /\ peersFile' = save_peers(Pop(peers, local_ip), o, peersFile)
            /\ mon' = IF local_ip \in DOMAIN peers THEN Detached(local_ip) ELSE mon
       ELSE UNCHANGED <<peers, peersFile, mon>>
    /\ UNCHANGED <<uiQueue, conn>>
    /\ UNCHANGED <<listener, history_lock, threads>>
    /\ UNCHANGED <<codecVars, histVars>>

\* the tables peers.json may hold when the monitor starts: peers seen just
\* now, a second ago, a day ago, at no readable time or never, with and
\* without a port
MonitorPeers ==
    LET E(port, seen) ==
            [k \in {K_port, K_online, K_last_seen} |->
                IF k = K_port THEN JInt(port) ELSE IF k = K_online THEN JTrue ELSE seen]
    IN  { [a \in PeerIPs |-> IF a = "10.0.0.2" THEN E(6000, T(StartSec))
                             ELSE [k \in {K_port, K_online} |->
                                      IF k = K_port THEN JInt(6000) ELSE JTrue]],
          [a \in PeerIPs |-> IF a = "10.0.0.2" THEN E(6000, T(StartSec - 1))
                             ELSE E(0, T(StartSec))],
          [a \in PeerIPs |-> IF a = "10.0.0.2" THEN E(6000, T(StartSec - SecondsPerDay))
                             ELSE E(6000, BadTime)] }

InitMonitor ==
    /\ peers \in MonitorPeers
    /\ peersFile = FileOf(peers)
    /\ uiQueue = <<>>
    /\ conn = NoConn
    /\ mon = NoScan
    /\ listener = Accepting
    /\ history_lock = NoThread
    /\ threads = [t \in Threads |-> Idle]
    /\ local_ip = LocalAddress

NextMonitor ==
    \/ \E order \in {f \in [1..Cardinality(DOMAIN peers) -> DOMAIN peers] :
                       \A x, y \in DOMAIN f : f[x] = f[y] => x = y} :
          ScanStart(order)
    \* what comes back from a probed peer: a ping, a pong, bytes that are no
    \* JSON, nothing
    \/ \E refused \in BOOLEAN,
          d \in {1, 2, Len(InboundObjs) + 2, Len(InboundObjs) + 3},
          o \in WriteOutcomes :
          ProbePeer(refused,
                    IF Inbound[d] = <<>> THEN Returned(JObj(<<>>), <<>>)
                    ELSE unpack_table[SHARED_KEY][d],
                    o)
    \/ SetOnline
    \/ ScanEnd
    \/ \E ip \in Senders : manual_connect(ip, 6001)
    \/ refresh_peers

\* the monitor over a day: the clock goes round, one day being all that
\* timedelta.seconds tells apart.  The tables hold one peer to probe, marked
\* offline, last seen a second ago, just now or never, and a peer with no port
LivePeer == "10.0.0.2"

LiveMonitorPeers ==
    LET E(seen) == [k \in {K_port, K_online, K_last_seen} |->
                       IF k = K_port THEN JInt(6000)
                       ELSE IF k = K_online THEN JFalse ELSE seen]
        Other   == [k \in {K_port, K_online} |-> IF k = K_port THEN JInt(0) ELSE JTrue]
    IN  { [a \in PeerIPs |-> IF a = LivePeer THEN E(T(StartSec - 1)) ELSE Other],
          [a \in PeerIPs |-> IF a = LivePeer THEN E(T(StartSec)) ELSE Other],
          [a \in PeerIPs |-> IF a = LivePeer
                             THEN [k \in {K_port, K_online} |->
                                      IF k = K_port THEN JInt(6000) ELSE JFalse]
                             ELSE Other] }

\* time passes; instants a whole day apart are taken for one
TickOfDay ==
    /\ nowT' = IF nowT + 1 = StartTick + TicksPerDay THEN StartTick ELSE nowT + 1
    /\ UNCHANGED <<history, histFile, pc, last, appends>>
    /\ UNCHANGED <<codecVars, connVars>>

InitMonitorLive ==
    /\ peers \in LiveMonitorPeers
    /\ peersFile = FileOf(peers)
    /\ uiQueue = <<>>
    /\ conn = NoConn
    /\ mon = NoScan
    /\ listener = Accepting
    /\ history_lock = NoThread
    /\ threads = [t \in Threads |-> Idle]
    /\ local_ip = LocalAddress

\* the steps of the monitor thread when every probe is answered with a pong
MonitorSteps ==
    \/ \E order \in Orders(DOMAIN peers) : ScanStart(order)
    \/ \E o \in WriteOutcomes : ProbePeer(FALSE, unpack_table[SHARED_KEY][2], o)
    \/ SetOnline
    \/ ScanEnd

NextMonitorLive ==
    \/ MonitorSteps
    \/ refresh_peers
    \/ TickOfDay

\* the thread scenario starts from an empty table
InitThreads ==
    /\ peers = EmptyDict
    /\ peersFile = FileOf(EmptyDict)
    /\ uiQueue = <<>>
    /\ conn = NoConn
    /\ mon = NoScan
    /\ listener = Accepting
    /\ history_lock = NoThread
    /\ threads = [t \in Threads |-> Idle]
    /\ local_ip = LocalAddress

\* the addresses get_local_ip() may return: the one the host started with
\* and one that a peer of the table had
LocalIPs == {LocalAddress, "10.0.0.3"}

\* the table of a host that stored its own name (lines 404-411) and knows
\* two peers, one with a port and one without
AddressPeers ==
    [a \in PeerIPs \cup {LocalAddress} |->
        IF a = LocalAddress
        THEN [k \in {K_port, "name"} |-> IF k = K_port THEN JInt(5000) ELSE JStr(<<65>>)]
        ELSE [k \in {K_port, K_online} |->
                 IF k = K_port THEN JInt(IF a = "10.0.0.2" THEN 6000 ELSE 0) ELSE JFalse]]

InitAddress ==
    /\ peers = AddressPeers
    /\ peersFile = FileOf(peers)
    /\ uiQueue = <<>>
    /\ conn = NoConn
    /\ mon = NoScan
    /\ listener = Accepting
    /\ history_lock = NoThread
    /\ threads = [t \in Threads |-> Idle]
    /\ local_ip = LocalAddress

\* the connections of the address scenario carry a ping or {"msg": "hi"}
AddressInbound == {1, 10}

\* inbound traffic from a peer, the callbacks, the scans of the monitor with
\* peers that answer with a pong or not at all, and changes of the local
\* address
NextAddress ==
    \/ \E ip \in Senders, sport \in SourcePorts, d \in AddressInbound :
          handle_conn(ip, sport, d, "ok")
    \/ refresh_peers
    \/ display_incoming
    \/ \E order \in Orders(DOMAIN peers) : ScanStart(order)
    \/ \E refused \in BOOLEAN : ProbePeer(refused, Returned(PongObj, <<>>), "written")
    \/ SetOnline
    \/ ScanEnd
    \/ \E current_ip \in LocalIPs : check_local_ip_change(current_ip, "written")

NextRead ==
    \/ \E t \in Handlers, ip \in Senders : accept_conn(t, ip)
    \/ \E t \in Handlers, d \in ReadInbound : remote_sends(t, d)
    \/ \E t \in Handlers : HandlerStep(t)

NextThreads ==
    \/ \E o \in WriteOutcomes : AutoClean(o)
    \/ \E t \in Handlers, ip \in Senders, d \in ThreadInbound : accept(t, ip, d)
    \/ \E e \in {"OSError", "RuntimeError"} : accept_raises(e)
    \/ \E t \in Handlers : h_branch(t)
    \/ \E t \in Handlers : h_setdefault(t)
    \/ \E t \in Handlers, sport \in SourcePorts : h_port(t, sport)
    \/ \E t \in Handlers : h_online(t)
    \/ \E t \in Handlers : h_last_seen(t)
    \/ \E t \in Handlers : sp_dump(t)
    \/ \E t \in Handlers, o \in WriteOutcomes : sp_close(t, o)
    \/ \E t \in Threads : acquire(t)
    \/ \E t \in Handlers : rh_append(t)
    \/ \E f \in {"keep_last_days", "keep_last_n", "clear_history"}, n \in 1..MaxN :
          ui_call(f, n)
    \/ \E t \in Threads, order \in Orders(DOMAIN history) : h_items(t, order)
    \/ \E t \in Threads : kd_iter(t)
    \/ \E t \in Threads : kd_assign(t)
    \/ \E t \in Threads : kn_assign(t)
    \/ \E t \in Threads : cl_clear(t)
    \/ \E t \in Threads : sh_dump(t)
    \/ \E t \in Threads, o \in WriteOutcomes : sh_close(t, o)
    \/ \E t \in Threads : release(t)
    \/ full_refresh

\* the state when ChatApp.__init__ returns: no key, the history loaded and
\* cleaned, the table loaded and written back (line 335)
InitCodecIdle ==
    /\ SHARED_KEY = <<>>
    /\ peerKey = <<>>
    /\ outObj = JNull
    /\ wire = <<>>
    /\ tamper = NoTamper
    /\ decoded = NoResult
    /\ cstage = "idle"

InitHistoryRun ==
    /\ histFile = FileAbsent
    /\ history = load_history(histFile)
    /\ nowT = StartTick
    /\ pc = "run"
    /\ last = NoOp
    /\ appends = 0

InitHandler ==
    /\ peers \in LoadedPeers
    /\ peersFile \in {save_peers(peers, o, FileAbsent) : o \in WriteOutcomes}
    /\ uiQueue = <<>>
    /\ conn = NoConn
    /\ mon = NoScan
    /\ listener = Accepting
    /\ history_lock = NoThread
    /\ threads = [t \in Threads |-> Idle]
    /\ local_ip = LocalAddress

\* the registry where no connection is handled
InitNoTraffic ==
    /\ peers = EmptyDict
    /\ peersFile = FileOf(EmptyDict)
    /\ uiQueue = <<>>
    /\ conn = NoConn
    /\ mon = NoScan
    /\ listener = Accepting
    /\ history_lock = NoThread
    /\ threads = [t \in Threads |-> Idle]
    /\ local_ip = LocalAddress

Init == InitCodecIdle /\ InitHistoryRun /\ InitHandler

Next ==
    \/ \E ans \in HandlerKeys : prompt_set_shared_key(ans)
    \/ \E ip \in Senders, sport \in SourcePorts, d \in DOMAIN Inbound,
          env \in HandlerEnvs :
          handle_conn(ip, sport, d, env)
    \/ refresh_peers
    \/ display_incoming

Spec == Init /\ [][Next]_vars

\* the codec alone: two hosts, their keys, and the bytes between them
InitCodecOnly == InitCodec /\ InitHistoryRun /\ InitNoTraffic
SpecCodec == InitCodecOnly /\ [][NextCodec]_vars

\* the history store alone, from the documents of LoadedHistories
InitHistoryOnly == InitCodecIdle /\ InitHistory /\ InitNoTraffic
SpecHistory == InitHistoryOnly /\ [][NextHistory]_vars

\* the monitor alone, with the user adding peers by hand
InitMonitorOnly == InitCodecIdle /\ InitHistoryRun /\ InitMonitor
SpecMonitor == InitMonitorOnly /\ [][NextMonitor]_vars

\* the monitor with peers that answer, the thread never starved of the
\* processor, the UI thread running its callbacks, and time passing
InitMonitorLiveOnly == InitCodecIdle /\ InitHistoryRun /\ InitMonitorLive
SpecMonitorLive ==
    /\ InitMonitorLiveOnly
    /\ [][NextMonitorLive]_vars
    /\ WF_vars(MonitorSteps)
    /\ WF_vars(refresh_peers)
    /\ WF_vars(TickOfDay)

\* the threads: the module is loaded, which cleans the history, then two
\* handlers at a time and the UI thread run; no key is set
InitThreadsOnly == InitCodecIdle /\ InitEmptyHistory /\ InitThreads
SpecThreads == InitThreadsOnly /\ [][NextThreads]_vars

\* the table under inbound traffic, the scans of the monitor and changes
\* of the local address
InitAddressOnly == InitCodecIdle /\ InitHistoryRun /\ InitAddress
SpecAddress == InitAddressOnly /\ [][NextAddress]_vars

\* the handlers from their read on: a thread that can take a step is given
\* the processor in the end; nothing is assumed of the remote hosts
InitReadOnly == InitCodecIdle /\ InitHistoryRun /\ InitThreads
SpecRead ==
    /\ InitReadOnly
    /\ [][NextRead]_vars
    /\ \A t \in Handlers : WF_vars(HandlerStep(t))

\* the history store alone, from no file
InitAppendOnly == InitCodecIdle /\ InitEmptyHistory /\ InitNoTraffic
SpecEmptyHistory == InitAppendOnly /\ [][NextAppend]_vars

----------------------------------------------------------------------------
(* The codec claims, checked under SpecCodec.                              *)

\* C1: an object packed with a non-empty key and unpacked, untouched, by a
\* host that holds the same key comes back as exactly that object.
C1_RoundTrip ==
    (cstage = "decoded" /\ tamper.kind = "none" /\ peerKey # <<>>
        /\ decoded.key = peerKey)
      => (decoded.out.ok /\ decoded.out.val = outObj)

C1_Witness ==
    /\ cstage = "decoded"
    /\ tamper.kind = "none"
    /\ peerKey = <<115, 51>>
    /\ decoded.key = peerKey
    /\ outObj = ChatObj(<<104, 34, 233>>, 5050)
    /\ decoded.out.ok

\* C2 as claimed: after a flip of one bit of a digit of payload or hmac the
\* decoding fails with HmacMismatch.
C2_EveryFlipIsHmacMismatch ==
    (cstage = "decoded" /\ tamper.kind = "flip")
      => (~decoded.out.ok /\ decoded.out.err = "HmacMismatch")

\* C2 as amended: a flipped digit never yields another object than the one
\* packed.  The decoding fails with InvalidEncoding when the flipped byte is
\* no ASCII, with NotJSON when it is a control character or a quote, with the
\* ValueError of bytes.fromhex when it is a payload character that is no
\* hexadecimal digit, with HmacMismatch otherwise; but a flip that only turns
\* a digit a-f into its capital is accepted, and the original object returned.
C2_FlipOutcome ==
    (cstage = "decoded" /\ tamper.kind = "flip")
      => LET c == tamper.was
             d == wire[tamper.pos]
         IN  IF d >= 128
             THEN ~decoded.out.ok /\ decoded.out.err = "InvalidEncoding"
             ELSE IF d < 32 \/ d = 34
             THEN ~decoded.out.ok /\ decoded.out.err = "NotJSON"
             ELSE IF d = c - 32 /\ c >= 97 /\ c <= 102
             THEN decoded.out.ok /\ decoded.out.val = outObj
             ELSE IF tamper.field = "payload"
                      /\ ~(d \in 48..57 \/ d \in 97..102 \/ d \in 65..70)
             THEN ~decoded.out.ok /\ decoded.out.err = "ValueError"
             ELSE ~decoded.out.ok /\ decoded.out.err = "HmacMismatch"

C2_Witness ==
    /\ cstage = "decoded"
    /\ tamper.kind = "flip"
    /\ tamper.field = "hmac"
    /\ wire[tamper.pos] = tamper.was - 32
    /\ decoded.out.ok
    /\ decoded.out.val = outObj

\* C3: from a wrapper decoded with a key an object is returned only if the
\* digest of key and received ciphertext equals the received tag, letter case
\* aside.  Where payload is hexadecimal text and hmac a text, so that there
\* are two tags to compare: equal tags are never refused as a mismatch, and
\* when they differ the decoding fails with HmacMismatch, with no XOR and no
\* JSON parsing of the ciphertext.
C3_TagGate ==
    (cstage = "decoded" /\ decoded.key # <<>>)
      => LET data == utf8_decode(wire)
             obj  == json_loads(data.text)
             p    == DictGet(obj.val, K_payload, JStr(<<>>))
             h    == DictGet(obj.val, K_hmac, JStr(<<>>))
             enc  == fromhex(p.s)
             tag  == sha256_hexdigest(utf8_encode(decoded.key) \o enc.bytes)
             same == lower(tag) = lower(h.s)
             wf   == p.t = "str" /\ h.t = "str" /\ enc.ok
         IN  (data.ok /\ obj.ok /\ IsDict(obj.val)
                 /\ PyEqualsOne(DictGet(obj.val, K_enc, JNull)))
               => /\ decoded.out.ok => (wf /\ same)
                  /\ (wf /\ same) => decoded.out.err # "HmacMismatch"
                  /\ (wf /\ ~same) =>
                        /\ ~decoded.out.ok
                        /\ decoded.out.err = "HmacMismatch"
                        /\ \A i \in 1..Len(decoded.out.ops) :
                              decoded.out.ops[i] \notin {"xor", "loads"}

C3_Witness ==
    /\ cstage = "decoded"
    /\ decoded.key = <<107>>
    /\ tamper.kind = "tag of plaintext"
    /\ decoded.out.err = "HmacMismatch"
    /\ decoded.out.ops = <<"fromhex", "hmac">>

\* C4: what a host with a key sends is an object with exactly the keys enc,
\* payload and hmac: enc is 1, payload the hexadecimal digits of the JSON bytes
\* XOR-ed with the repeated key bytes, hmac the lowercase digest of key bytes
\* and ciphertext; a host with another key fails on it with HmacMismatch.
C4_WrapperAndOtherKey ==
    /\ (cstage = "sent" /\ tamper.kind = "none" /\ peerKey # <<>>)
         => LET obj == json_loads(utf8_decode(wire).text)
                raw == utf8_encode(json_dumps(outObj))
                kb  == utf8_encode(peerKey)
                ct  == [i \in 1..Len(raw) |-> Xor8(raw[i], kb[((i - 1) % Len(kb)) + 1])]
            IN  /\ obj.ok
                /\ IsDict(obj.val)
                /\ Len(obj.val.m) = 3
                /\ DictGet(obj.val, K_enc, JNull) = JInt(1)
                /\ DictGet(obj.val, K_payload, JNull) = JStr(hex(ct))
                /\ DictGet(obj.val, K_hmac, JNull) = JStr(sha256_hexdigest(kb \o ct))
                /\ \A i \in 1..Len(DictGet(obj.val, K_hmac, JNull).s) :
                      DictGet(obj.val, K_hmac, JNull).s[i] \notin 65..90
    /\ (cstage = "decoded" /\ tamper.kind = "none" /\ peerKey # <<>>
            /\ decoded.key # <<>> /\ decoded.key # peerKey)
         => (~decoded.out.ok /\ decoded.out.err = "HmacMismatch")

C4_Witness ==
    /\ cstage = "decoded"
    /\ tamper.kind = "none"
    /\ peerKey = <<107>>
    /\ decoded.key = <<115, 51>>
    /\ decoded.out.err = "HmacMismatch"

\* C5: a host without a key sends the JSON text of the object and nothing
\* around it, and fails with the configuration error on every object whose enc
\* equals 1, whatever payload and hmac hold.
C5_NoKey ==
    /\ (cstage = "sent" /\ tamper.kind = "none" /\ peerKey = <<>>)
         => /\ wire = utf8_encode(json_dumps(outObj))
            /\ json_loads(utf8_decode(wire).text) = [ok |-> TRUE, val |-> outObj]
    /\ (cstage = "decoded" /\ decoded.key = <<>>)
         => LET obj == json_loads(utf8_decode(wire).text)
            IN  (utf8_decode(wire).ok /\ obj.ok /\ IsDict(obj.val)
                    /\ PyEqualsOne(DictGet(obj.val, K_enc, JNull)))
                  => (~decoded.out.ok /\ decoded.out.err = "ConfigurationError")

C5_Witness ==
    /\ cstage = "decoded"
    /\ decoded.key = <<>>
    /\ tamper.kind = "hmac 5"
    /\ decoded.out.err = "ConfigurationError"

----------------------------------------------------------------------------
(* The history claims.  C6 is checked under SpecEmptyHistory, C7 to C9     *)
(* under SpecHistory.  A formula about the steps of one operation names    *)
(* the operation in its antecedent; where a cheaper conjunct stands before *)
(* it, that conjunct follows from the operation and only spares its        *)
(* evaluation on the steps of other operations.                            *)

\* the indices of lst whose entries are pings
PingIndices(lst) == {i \in 1..Len(lst) : lst[i].type = "ping"}

\* the k-th smallest member of a set of indices
Kth(S, k) == CHOOSE i \in S : Cardinality({j \in S : j <= i}) = k

\* lst restricted to the indices in S, in the order of lst
Restrict(lst, S) == [k \in 1..Cardinality(S) |-> lst[Kth(S, k)]]

\* C6: from an empty history, whatever is recorded, no peer ever has more
\* entries of type ping than MAX_PING_RECORDS_PER_PEER.
C6_PingCap ==
    \A p \in DOMAIN history :
        Cardinality(PingIndices(history[p])) <= MAX_PING_RECORDS_PER_PEER

C6_Witness ==
    /\ last.op = "record_history"
    /\ last.type = "ping"
    /\ last.removed = 1
    /\ Cardinality(PingIndices(history[last.peer])) = MAX_PING_RECORDS_PER_PEER
    /\ \E i, j \in PingIndices(history[last.peer]) :
          history[last.peer][i].dir = "in" /\ history[last.peer][j].dir = "out"

\* C7: when record_history appends a ping for a peer, what leaves the list of
\* that peer is exactly its r oldest pings, r the number of pings above the
\* cap; every other entry stays, in the order it had, so the entries that are
\* no pings are the same sequence as before; no other peer's list changes.
C7_OldestPingsGo ==
    [][\A peer \in PeerIPs, direction \in {"in", "out"}, content \in Contents,
          o \in WriteOutcomes :
          (last'.op = "record_history" /\ record_history(peer, direction, content, "ping", o))
            => LET old   == ListOf(history, peer)
                   full  == Append(old, Entry(now, direction, content, "ping"))
                   pings == PingIndices(full)
                   r     == IF Cardinality(pings) > MAX_PING_RECORDS_PER_PEER
                            THEN Cardinality(pings) - MAX_PING_RECORDS_PER_PEER
                            ELSE 0
                   gone  == {i \in pings : Cardinality({j \in pings : j <= i}) <= r}
                   new   == history'[peer]
               IN  /\ new = Restrict(full, (1..Len(full)) \ gone)
                   /\ SelectSeq(new, LAMBDA e : e.type # "ping")
                         = SelectSeq(old, LAMBDA e : e.type # "ping")
                   /\ DOMAIN history' = (DOMAIN history) \cup {peer}
                   /\ \A q \in (DOMAIN history) \ {peer} : history'[q] = history[q]]_vars

C7_Witness ==
    /\ last.op = "record_history"
    /\ last.type = "ping"
    /\ last.removed = 3
    /\ history[last.peer][1].type = "msg"
    /\ Cardinality(PingIndices(history[last.peer])) = MAX_PING_RECORDS_PER_PEER

\* C8: keep_last_n(n), n >= 0, leaves every peer that had L entries with
\* min(n, L) entries, the last ones of its list in their order.
C8_KeepLastN ==
    [][\A n \in 0..MaxN, o \in WriteOutcomes :
          keep_last_n(n, o)
            => /\ DOMAIN history' = DOMAIN history
               /\ \A p \in DOMAIN history :
                     LET L == Len(history[p])
                         m == IF n < L THEN n ELSE L
                     IN  /\ Len(history'[p]) = m
                         /\ \A i \in 1..m : history'[p][i] = history[p][(L - m) + i]]_vars

\* C9: keep_last_days(days) keeps, for every peer, exactly the entries whose
\* time is a timestamp that is not before now - days, in their order; an entry
\* whose time is another text or missing goes; save_history is called with
\* the result, which is the content of the file when the write goes through.
C9_KeepLastDays ==
    [][\A days \in 0..MaxDays, o \in WriteOutcomes :
          (last'.op = "keep_last_days" /\ keep_last_days(days, o))
            => LET cutoff   == nowT - (days * TicksPerDay)
                   Fresh(e) == e.time.k = "str" /\ (e.time.sec * TicksPerSecond) >= cutoff
               IN  /\ DOMAIN history' = DOMAIN history
                   /\ \A p \in DOMAIN history :
                         history'[p]
                           = Restrict(history[p],
                                      {i \in 1..Len(history[p]) : Fresh(history[p][i])})
                   /\ o = "written" => histFile' = [state |-> "written", doc |-> history']
                   /\ o = "failed" => histFile'.state = "stale"]_vars

C9_Witness ==
    /\ last.op = "keep_last_days"
    /\ last.n = 1
    /\ last.removed = 1
    /\ nowT = StartTick
    /\ "10.0.0.2" \in DOMAIN history
    /\ history["10.0.0.2"] = <<Entry(T(DayAgo), "out", Hi, "msg")>>
    /\ histFile = FileOf(history)

\* C12: the clean at start-up runs once, when the module loads; it leaves of
\* every peer exactly the entries whose time parses and is not more than
\* AUTO_CLEAN_DAYS days before the moment of the clean, in their order; and it
\* writes the history file when it removed an entry and leaves the file alone
\* when it removed none.
C12_StartupClean ==
    [][/\ pc = "run" => pc' = "run"
       /\ (pc = "import" /\ pc' = "run") =>
             /\ DOMAIN history' = DOMAIN history
             /\ \A p \in DOMAIN history :
                   history'[p] =
                       SelectSeq(history[p],
                                 LAMBDA e : /\ e.time.k = "str"
                                            /\ nowT - (e.time.sec * TicksPerSecond)
                                                 <= AUTO_CLEAN_DAYS * TicksPerDay)
             /\ IF \E p \in DOMAIN history : Len(history'[p]) < Len(history[p])
                THEN histFile' \in {FileOf(history'), FileStale}
                ELSE histFile' = histFile
      ]_vars

\* the clean has run and removed an entry older than the window and two with
\* no readable time, it kept the entry written AUTO_CLEAN_DAYS days ago to the
\* second, and the file holds what is left
C12_Witness ==
    /\ pc = "run"
    /\ last.op = "auto_clean"
    /\ last.removed = 3
    /\ histFile = FileOf(history)
    /\ Len(history["10.0.0.2"]) = 2
    /\ Len(history["10.0.0.3"]) = 2

----------------------------------------------------------------------------
(* The handler claims, checked under Spec.  A step of handle_conn on a     *)
(* chat envelope leaves the envelope in conn.obj and a longer uiQueue, and *)
(* the byte strings that matter are those that decode to that envelope:    *)
(* these conditions follow from handle_conn and stand before it to spare   *)
(* its evaluation on other steps.                                          *)

\* the decoded object is a chat envelope: a dict with msg and an integer
\* from_port, no ping and no pong, its msg not the probe marker
IsChat(r) ==
    /\ r.ok
    /\ IsDict(r.val)
    /\ HasKey(r.val, K_msg)
    /\ HasKey(r.val, K_from_port)
    /\ ~HasKey(r.val, K_ping)
    /\ ~HasKey(r.val, K_pong)
    /\ DictGet(r.val, K_from_port, JNull).t = "int"
    /\ DictGet(r.val, K_msg, JNull) # JStr(TEST_REPLY)

\* the list of ip has gained exactly one entry, in / msg / m
GainedOne(ip, m) ==
    /\ ip \in DOMAIN history'
    /\ Len(history'[ip]) = Len(ListOf(history, ip)) + 1
    /\ SubSeq(history'[ip], 1, Len(ListOf(history, ip))) = ListOf(history, ip)
    /\ LET e == history'[ip][Len(history'[ip])]
       IN  e.dir = "in" /\ e.type = "msg" /\ e.msg = m

\* C10 as claimed: after a chat envelope {msg: m, from_port: P} from address
\* A, the entry of A has port P and online true and the history of A has
\* gained one entry in / msg / m, with or without a name in the envelope and
\* whether or not A was known.
C10_PortIsClaimedPort ==
    [][(IsChat(conn'.obj) /\ Len(uiQueue') > Len(uiQueue)) =>
        \A ip \in Senders, sport \in SourcePorts, env \in HandlerEnvs,
           d \in {x \in DOMAIN Inbound : unpack_table[SHARED_KEY][x] = conn'.obj} :
          handle_conn(ip, sport, d, env)
            => /\ ip \in DOMAIN peers'
               /\ K_port \in DOMAIN peers'[ip]
               /\ peers'[ip][K_port] = DictGet(conn'.obj.val, K_from_port, JNull)
               /\ K_online \in DOMAIN peers'[ip]
               /\ peers'[ip][K_online] = JTrue
               /\ GainedOne(ip, DictGet(conn'.obj.val, K_msg, JNull))]_vars

\* C10 as amended: the history of A gains exactly one entry in / msg / m.  For
\* P other than 0 the entry of A has online true afterwards, and its port is
\* the port it held before when that was not 0; else P when the envelope has
\* no name, and the source port of the connection when it has one.  For P = 0
\* and no name the table is left as it was.
C10_ChatEffect ==
    [][(IsChat(conn'.obj) /\ Len(uiQueue') > Len(uiQueue)) =>
        \A ip \in Senders, sport \in SourcePorts, env \in HandlerEnvs,
           d \in {x \in DOMAIN Inbound : unpack_table[SHARED_KEY][x] = conn'.obj} :
          handle_conn(ip, sport, d, env)
            => LET obj   == conn'.obj.val
                   P     == DictGet(obj, K_from_port, JNull)
                   name  == DictGet(obj, K_name, JNull)
                   named == name.t = "str" /\ name.s # <<>>
                   held  == /\ ip \in DOMAIN peers
                            /\ K_port \in DOMAIN peers[ip]
                            /\ peers[ip][K_port] # JInt(0)
               IN  /\ GainedOne(ip, DictGet(obj, K_msg, JNull))
                   /\ P.n # 0 =>
                         /\ ip \in DOMAIN peers'
                         /\ K_online \in DOMAIN peers'[ip]
                         /\ peers'[ip][K_online] = JTrue
                         /\ K_port \in DOMAIN peers'[ip]
                         /\ peers'[ip][K_port]
                               = IF held THEN peers[ip][K_port]
                                 ELSE IF named THEN JInt(sport) ELSE P
                   /\ (P.n = 0 /\ ~named) => peers' = peers]_vars

C10_Witness ==
    /\ conn.ip = "10.0.0.2"
    /\ conn.obj.ok
    /\ conn.obj.val = ChatObj(HiText, 5050)
    /\ conn.known
    /\ conn.had[K_port] = JInt(6000)
    /\ peers["10.0.0.2"][K_port] = JInt(6000)
    /\ peers["10.0.0.2"][K_online] = JTrue
    /\ last.op = "record_history"
    /\ last.peer = "10.0.0.2"

\* the callbacks display_incoming that a step has added to the queue
Shown == SelectSeq(SubSeq(uiQueue', Len(uiQueue) + 1, Len(uiQueue')),
                   LAMBDA c : c.f = "display_incoming")

\* C13: a decoded object is handled by the first of these that applies.  A
\* dict with ping: the pong is sent (nothing when the send fails, and then
\* the ping branch leaves the table alone), nothing is recorded or shown,
\* whatever else the dict holds.  Else a dict with pong: nothing is sent,
\* recorded or shown, and the sender is marked online.  Else a dict with msg:
\* nothing is sent, and a text other than the probe marker is recorded and
\* shown once.  Anything else: nothing is sent, recorded or shown.
C13_Precedence ==
    [][(conn'.obj.ok /\ SHARED_KEY' = SHARED_KEY /\ Len(uiQueue') >= Len(uiQueue)) =>
        \A ip \in Senders, sport \in SourcePorts, env \in HandlerEnvs,
           d \in {x \in DOMAIN Inbound : unpack_table[SHARED_KEY][x] = conn'.obj} :
          handle_conn(ip, sport, d, env)
            => LET obj  == conn'.obj.val
                   ping == IsDict(obj) /\ HasKey(obj, K_ping)
                   pong == IsDict(obj) /\ ~ping /\ HasKey(obj, K_pong)
                   chat == IsDict(obj) /\ ~ping /\ ~pong /\ HasKey(obj, K_msg)
                   m    == DictGet(obj, K_msg, JNull)
                   name == DictGet(obj, K_name, JNull)
               IN  /\ ping =>
                         /\ conn'.sent = IF env = "send fails" THEN <<>>
                                         ELSE pong_table[SHARED_KEY]
                         /\ history' = history
                         /\ Shown = <<>>
                         /\ env # "send fails" => peers'[ip][K_online] = JTrue
                         /\ (env = "send fails" /\ ~(IsDict(obj) /\ Truthy(name)))
                               => peers' = peers
                   /\ pong =>
                         /\ conn'.sent = <<>>
                         /\ history' = history
                         /\ Shown = <<>>
                         /\ peers'[ip][K_online] = JTrue
                   /\ chat =>
                         /\ conn'.sent = <<>>
                         /\ m # JStr(TEST_REPLY) =>
                               /\ GainedOne(ip, m)
                               /\ Shown = <<DisplayCall(ip, m)>>
                   /\ (~ping /\ ~pong /\ ~chat) =>
                         /\ conn'.sent = <<>>
                         /\ history' = history
                         /\ Shown = <<>>]_vars

\* a dict with ping, pong and msg has been answered with a pong, and nothing
\* was recorded or queued for display
C13_Witness ==
    /\ conn.obj.ok
    /\ HasKey(conn.obj.val, K_ping)
    /\ HasKey(conn.obj.val, K_pong)
    /\ HasKey(conn.obj.val, K_msg)
    /\ conn.sent = pong_table[SHARED_KEY]
    /\ peers[conn.ip][K_online] = JTrue
    /\ appends = 0
    /\ uiQueue = <<>>

\* the decoded object is none of ping, pong and chat: a dict with none of the
\* three keys, or no dict
IsUnknown(r) ==
    /\ r.ok
    /\ ~(IsDict(r.val) /\ HasKey(r.val, K_ping))
    /\ ~(IsDict(r.val) /\ HasKey(r.val, K_pong))
    /\ ~(IsDict(r.val) /\ HasKey(r.val, K_msg))

\* C14 as claimed: handling an object that is none of ping, pong and chat
\* leaves the table of peers and the history as they were, whatever other keys
\* the object has.
C14_UnknownChangesNothing ==
    [][(IsUnknown(conn'.obj) /\ SHARED_KEY' = SHARED_KEY /\ Len(uiQueue') >= Len(uiQueue)) =>
        \A ip \in Senders, sport \in SourcePorts, env \in HandlerEnvs,
           d \in {x \in DOMAIN Inbound : unpack_table[SHARED_KEY][x] = conn'.obj} :
          handle_conn(ip, sport, d, env)
            => /\ peers' = peers
               /\ history' = history]_vars

\* C14 as amended: handling such an object leaves the history and its file as
\* they were.  It leaves the table and its file as they were too, unless the
\* object is a dict with a name that Python counts as true (a text that is not
\* empty, a number other than 0): then the entry of the sender
\* is made if there was none, gets that name, online true and the time of
\* receipt as last_seen, keeps its port when it has one and else gets the
\* source port of the connection, the other entries stay, and the table is
\* saved.
C14_UnknownEffect ==
    [][(IsUnknown(conn'.obj) /\ SHARED_KEY' = SHARED_KEY /\ Len(uiQueue') >= Len(uiQueue)) =>
        \A ip \in Senders, sport \in SourcePorts, env \in HandlerEnvs,
           d \in {x \in DOMAIN Inbound : unpack_table[SHARED_KEY][x] = conn'.obj} :
          handle_conn(ip, sport, d, env)
            => LET obj   == conn'.obj.val
                   name  == DictGet(obj, K_name, JNull)
                   named == IsDict(obj) /\ Truthy(name)
                   held  == /\ ip \in DOMAIN peers
                            /\ K_port \in DOMAIN peers[ip]
                            /\ peers[ip][K_port] # JInt(0)
               IN  /\ history' = history
                   /\ histFile' = histFile
                   /\ ~named => (peers' = peers /\ peersFile' = peersFile)
                   /\ named =>
                         /\ DOMAIN peers' = DOMAIN peers \cup {ip}
                         /\ \A a \in DOMAIN peers \ {ip} : peers'[a] = peers[a]
                         /\ DOMAIN peers'[ip]
                               = (IF ip \in DOMAIN peers THEN DOMAIN peers[ip] ELSE {})
                                   \cup {K_port, "name", K_online, K_last_seen}
                         /\ peers'[ip]["name"] = name
                         /\ peers'[ip][K_online] = JTrue
                         /\ peers'[ip][K_last_seen] = strftime(nowT)
                         /\ peers'[ip][K_port] = IF held THEN peers[ip][K_port]
                                                 ELSE JInt(sport)
                         /\ peersFile' \in {FileOf(peers'), FileStale}]_vars

\* an object with a name and none of the three keys came from an address the
\* table did not have, and the table has that address now, with the name
C14_Witness ==
    /\ IsUnknown(conn.obj)
    /\ IsDict(conn.obj.val)
    /\ HasKey(conn.obj.val, K_name)
    /\ ~conn.known
    /\ conn.ip \in DOMAIN peers
    /\ peers[conn.ip]["name"] = JStr(<<66>>)
    /\ peers[conn.ip][K_port] = JInt(40001)
    /\ history = EmptyDict

\* C15: when a ping comes in, the list of the sender in the history gains
\* one entry, of type ping and direction in, and the act of recording stands
\* before the send among the acts of the handler.
C15_PingIsRecorded ==
    [][(conn'.obj.ok /\ SHARED_KEY' = SHARED_KEY /\ Len(uiQueue') >= Len(uiQueue)
          /\ IsDict(conn'.obj.val) /\ HasKey(conn'.obj.val, K_ping)) =>
        \A ip \in Senders, sport \in SourcePorts, env \in HandlerEnvs,
           d \in {x \in DOMAIN Inbound : unpack_table[SHARED_KEY][x] = conn'.obj} :
          handle_conn(ip, sport, d, env)
            => /\ ip \in DOMAIN history'
               /\ Len(history'[ip]) = Len(ListOf(history, ip)) + 1
               /\ history'[ip][Len(history'[ip])].type = "ping"
               /\ history'[ip][Len(history'[ip])].dir = "in"
               /\ \E i, j \in DOMAIN conn'.acts :
                     /\ i < j
                     /\ conn'.acts[i] = "record_history"
                     /\ conn'.acts[j] = "send"]_vars

\* pack_payload({"pong": 1, "rtt_ms": 0}) under each key, and what
\* unpack_payload makes of it under the same key
PongBytes == [k \in HandlerKeys |-> pack_payload(k, PongObj)]
PongRead == [k \in HandlerKeys |-> unpack_payload(k, PongBytes[k])]

\* how many times act stands in the list acts
Count(acts, act) == Cardinality({i \in DOMAIN acts : acts[i] = act})

\* C16: for a ping the handler calls send once, with the bytes pack_payload
\* makes of {"pong": 1, "rtt_ms": 0} under the key of this host, which decode
\* to that object; these bytes are all that goes out (nothing when the call
\* fails), and close follows.  For a pong, a chat message and anything else
\* it calls send not at all, nothing goes out, and close is its last act.
C16_OnePongThenClose ==
    [][(conn'.obj.ok /\ SHARED_KEY' = SHARED_KEY /\ Len(uiQueue') >= Len(uiQueue)) =>
        \A ip \in Senders, sport \in SourcePorts, env \in HandlerEnvs,
           d \in {x \in DOMAIN Inbound : unpack_table[SHARED_KEY][x] = conn'.obj} :
          handle_conn(ip, sport, d, env)
            => LET acts == conn'.acts
                   ping == IsDict(conn'.obj.val) /\ HasKey(conn'.obj.val, K_ping)
               IN  /\ acts[Len(acts)] = "close"
                   /\ Count(acts, "close") = 1
                   /\ ping =>
                         /\ Count(acts, "send") = 1
                         /\ conn'.sent = IF env = "send fails" THEN <<>>
                                         ELSE PongBytes[SHARED_KEY]
                         /\ PongRead[SHARED_KEY] = Returned(PongObj, PongRead[SHARED_KEY].ops)
                   /\ ~ping =>
                         /\ Count(acts, "send") = 0
                         /\ conn'.sent = <<>>]_vars

\* a ping came in while this host held the key "k", and the wrapped pong went
\* out before the close
C16_Witness ==
    /\ conn.obj.ok
    /\ HasKey(conn.obj.val, K_ping)
    /\ SHARED_KEY = <<107>>
    /\ conn.sent = PongBytes[<<107>>]
    /\ conn.sent # PongBytes[<<>>]
    /\ conn.acts[Len(conn.acts)] = "close"

\* C17: when a pong comes in (a dict with pong and without ping), by a
\* connection of its own and so in answer to no probe of this host, the table
\* has an entry for the sender afterwards, made if there was none, with online
\* true and the time of receipt as last_seen; the other entries stay and the
\* table is saved.
C17_PongMarksOnline ==
    [][(conn'.obj.ok /\ SHARED_KEY' = SHARED_KEY /\ Len(uiQueue') >= Len(uiQueue)
          /\ IsDict(conn'.obj.val) /\ HasKey(conn'.obj.val, K_pong)
          /\ ~HasKey(conn'.obj.val, K_ping)) =>
        \A ip \in Senders, sport \in SourcePorts, env \in HandlerEnvs,
           d \in {x \in DOMAIN Inbound : unpack_table[SHARED_KEY][x] = conn'.obj} :
          handle_conn(ip, sport, d, env)
            => /\ DOMAIN peers' = DOMAIN peers \cup {ip}
               /\ \A a \in DOMAIN peers \ {ip} : peers'[a] = peers[a]
               /\ {K_online, K_last_seen} \subseteq DOMAIN peers'[ip]
               /\ peers'[ip][K_online] = JTrue
               /\ peers'[ip][K_last_seen] = strftime(nowT)
               /\ peersFile' \in {FileOf(peers'), FileStale}]_vars

\* a pong came from a peer the table had as offline and last seen a second
\* before; it is online now and last seen at the time of receipt
C17_Witness ==
    /\ conn.obj.ok
    /\ conn.obj.val = PongObj
    /\ conn.known
    /\ conn.had[K_online] = JFalse
    /\ conn.had[K_last_seen] = T(StartSec - 1)
    /\ peers[conn.ip][K_online] = JTrue
    /\ peers[conn.ip][K_last_seen] = T(StartSec)

\* the decoded object is a chat message: a dict with msg, without ping and
\* without pong
IsMsg(r) ==
    /\ r.ok
    /\ IsDict(r.val)
    /\ HasKey(r.val, K_msg)
    /\ ~HasKey(r.val, K_ping)
    /\ ~HasKey(r.val, K_pong)

\* C18: when a chat message whose text is "__TEST_REPLY__" is handled, with
\* or without a from_port, the history and its file stay as they were and no
\* display_incoming is put on the queue.
C18_MarkerIsDropped ==
    [][(IsMsg(conn'.obj) /\ SHARED_KEY' = SHARED_KEY /\ Len(uiQueue') >= Len(uiQueue)
          /\ DictGet(conn'.obj.val, K_msg, JNull)
                = JStr(<<95, 95, 84, 69, 83, 84, 95, 82, 69, 80, 76, 89, 95, 95>>)) =>
        \A ip \in Senders, sport \in SourcePorts, env \in HandlerEnvs,
           d \in {x \in DOMAIN Inbound : unpack_table[SHARED_KEY][x] = conn'.obj} :
          handle_conn(ip, sport, d, env)
            => /\ history' = history
               /\ histFile' = histFile
               /\ appends' = appends
               /\ Shown = <<>>
               /\ Count(conn'.acts, "record_history") = 0]_vars

\* the marker came in a chat message with a port, from an address the table
\* did not have: the address is in the table now, nothing is in the history
\* and only the redraw of the list is queued
C18_Witness ==
    /\ IsMsg(conn.obj)
    /\ DictGet(conn.obj.val, K_msg, JNull) = JStr(TEST_REPLY)
    /\ HasKey(conn.obj.val, K_from_port)
    /\ ~conn.known
    /\ conn.ip \in DOMAIN peers
    /\ history = EmptyDict
    /\ uiQueue = <<RefreshCall>>

\* C19: after a chat message from an address is handled, the probe marker or
\* another text, with or without from_port and name, the table has an entry
\* for that address with online true and the time of receipt as last_seen.
C19_ChatMarksSender ==
    [][(IsMsg(conn'.obj) /\ SHARED_KEY' = SHARED_KEY /\ Len(uiQueue') >= Len(uiQueue)) =>
        \A ip \in Senders, sport \in SourcePorts, env \in HandlerEnvs,
           d \in {x \in DOMAIN Inbound : unpack_table[SHARED_KEY][x] = conn'.obj} :
          handle_conn(ip, sport, d, env)
            => /\ ip \in DOMAIN peers'
               /\ {K_online, K_last_seen} \subseteq DOMAIN peers'[ip]
               /\ peers'[ip][K_online] = JTrue
               /\ peers'[ip][K_last_seen] = strftime(nowT)]_vars

\* C20: when a chat message with a text other than the probe marker is
\* handled, one display_incoming is put on the queue, with the address of the
\* sender and the text, and the history gains one entry, in / msg / the text,
\* at the end of the list of the sender, the other lists staying as they
\* were.  Whatever else is received (a ping, a pong, the marker, another
\* object, bytes that do not decode, nothing) puts no display_incoming on the
\* queue.
C20_OneDisplayOneEntry ==
    [][(SHARED_KEY' = SHARED_KEY /\ Len(uiQueue') >= Len(uiQueue)) =>
        \A ip \in Senders, sport \in SourcePorts, env \in HandlerEnvs,
           d \in {x \in DOMAIN Inbound :
                    conn'.obj = IF Inbound[x] = <<>> THEN Raised("empty read", <<>>)
                                ELSE unpack_table[SHARED_KEY][x]} :
          handle_conn(ip, sport, d, env)
            => LET m == DictGet(conn'.obj.val, K_msg, JNull)
               IN  IF IsMsg(conn'.obj)
                        /\ m # JStr(<<95, 95, 84, 69, 83, 84, 95, 82, 69, 80, 76, 89, 95, 95>>)
                   THEN /\ Shown = <<[f |-> "display_incoming", ip |-> ip, msg |-> m]>>
                        /\ GainedOne(ip, m)
                        /\ DOMAIN history' = DOMAIN history \cup {ip}
                        /\ \A a \in DOMAIN history \ {ip} : history'[a] = history[a]
                        /\ Count(conn'.acts, "record_history") = 1
                   ELSE Shown = <<>>]_vars

\* the text "hi" came in a chat message: the queue holds the redraw of the
\* list and one display_incoming for the sender and "hi", and the history of
\* the sender is that one entry
C20_Witness ==
    /\ IsMsg(conn.obj)
    /\ uiQueue = <<RefreshCall, [f |-> "display_incoming", ip |-> conn.ip, msg |-> Hi]>>
    /\ DOMAIN history = {conn.ip}
    /\ Len(history[conn.ip]) = 1
    /\ history[conn.ip][1].dir = "in"
    /\ history[conn.ip][1].type = "msg"
    /\ history[conn.ip][1].msg = Hi

----------------------------------------------------------------------------
(* The monitor claim, checked under SpecMonitor.  mon.log lists the turns  *)
(* of the scan under way: the peer, what the network did (none when the    *)
(* peer was passed over) and what ping_peer returned.                      *)

\* the dict the scan holds for the pair i of its snapshot
InfoOf(i) == IF i.live THEN peers[i.ip] ELSE i.d

\* C11: when the monitor probes a peer whose port refuses the connection, no
\* exception ends the thread; ping_peer leaves the entry of that peer with
\* online = False and the assignment of line 1165 stores False again; the
\* scan goes on: each turn takes the next pair of the snapshot and probes it
\* exactly when it is eligible, and the scan ends only when every pair of the
\* snapshot had its turn.
C11_RefusedProbe ==
    [][/\ mon'.st # "dead"
       /\ (mon.st = "scan" /\ Len(mon'.log) = Len(mon.log) + 1) =>
             /\ mon'.todo = Tail(mon.todo)
             /\ mon'.log[Len(mon'.log)].ip = Head(mon.todo).ip
             /\ Eligible(InfoOf(Head(mon.todo))) <=> mon'.st = "probed"
             /\ mon'.log[Len(mon'.log)].net = "refused" =>
                   /\ mon'.ok = JFalse
                   /\ Head(mon.todo).ip \in DOMAIN peers'
                   /\ peers'[Head(mon.todo).ip][K_online] = JFalse
       /\ (mon.st = "probed" /\ mon'.st = "scan" /\ mon.ok = JFalse) =>
             /\ mon'.todo = mon.todo
             /\ mon.cur.live => peers'[mon.cur.ip][K_online] = JFalse
       /\ (mon.st = "scan" /\ mon'.st = "sleep") =>
             /\ Len(mon.log) = Len(mon.snap)
             /\ \A j \in DOMAIN mon.snap : mon.log[j].ip = mon.snap[j]
      ]_vars

\* a scan whose first probe was refused, that peer now offline, and whose
\* second peer has been probed after it
C11_Witness ==
    /\ mon.st = "probed"
    /\ Len(mon.log) = 2
    /\ mon.log[1].net = "refused"
    /\ mon.log[2].net = "reply"
    /\ peers[mon.log[1].ip][K_online] = JFalse

\* the last-seen of the dict info lies within the grace window: it is a time
\* not after now and at most RecentSeconds seconds before it
Recent(info) ==
    LET seen == IF K_last_seen \in DOMAIN info THEN info[K_last_seen] ELSE NoTime
    IN  /\ strptime(seen).ok
        /\ nowT >= strptime(seen).t
        /\ (nowT - strptime(seen).t) \div TicksPerSecond <= RecentSeconds

\* C24 as claimed: in a turn of the scan for a peer with a port, the peer is
\* passed over exactly when its last-seen lies within the grace window, and
\* probed when its last-seen is older or it has none.
C24_RecentPeersAreSkipped ==
    [][(/\ mon.st = "scan"
        /\ Len(mon'.log) = Len(mon.log) + 1
        /\ ~NoPort(InfoOf(Head(mon.todo)))) =>
          (mon'.log[Len(mon'.log)].net = "none" <=> Recent(InfoOf(Head(mon.todo))))]_vars

\* C26 as claimed: when a probe is answered with a pong, the entry of the
\* peer has online true and last-seen now, the table is saved, and the
\* history of the peer has gained one entry out / ping.
C26_PongIsRecorded ==
    [][(/\ mon.st = "scan"
        /\ Len(mon'.log) = Len(mon.log) + 1
        /\ mon'.log[Len(mon'.log)].ok = JTrue) =>
          LET ip == Head(mon.todo).ip
          IN  /\ ip \in DOMAIN peers'
              /\ peers'[ip][K_online] = JTrue
              /\ K_last_seen \in DOMAIN peers'[ip]
              /\ peers'[ip][K_last_seen] = now
              /\ peersFile' \in {FileOf(peers'), FileStale}
              /\ ip \in DOMAIN history'
              /\ Len(history'[ip]) = Len(ListOf(history, ip)) + 1
              /\ history'[ip][Len(history'[ip])].dir = "out"
              /\ history'[ip][Len(history'[ip])].type = "ping"]_vars

\* C27 as claimed: when a probe got its connection and no pong (nothing came
\* back, or an object that is no pong, or bytes that do not decode), the
\* turn of the scan leaves online = false for the peer, in the table and in
\* peers.json.
C27_NoPongMarksOffline ==
    [][(/\ mon.st = "probed"
        /\ mon'.st = "scan"
        /\ mon.cur.live
        /\ mon.log[Len(mon.log)].net \in {"reply", "bad reply"}
        /\ mon.log[Len(mon.log)].ok # JTrue) =>
          /\ peers'[mon.cur.ip][K_online] = JFalse
          /\ peersFile'.state = "written" =>
                peersFile'.doc[mon.cur.ip][K_online] = JFalse]_vars

----------------------------------------------------------------------------
(* Failures of the decode in the handler, checked under Spec.              *)

\* the reasons for which the handler gives a connection up before the name
\* block: the read is empty, or unpack_payload raised one of its ValueErrors
DecodeFailures ==
    {"empty read", "InvalidEncoding", "NotJSON", "HmacMismatch", "ConfigurationError"}

\* C21: when the read is empty or the decode of the bytes fails (bytes that
\* are no UTF-8 or no JSON, a tag that does not match, an encrypted envelope
\* and no key), the handler does nothing but close the connection: it sends
\* nothing, schedules nothing, and the table, peers.json, the history and
\* chat_history.json are what they were, as is everything else a later
\* handler reads.
C21_DecodeFailureOnlyCloses ==
    [][(SHARED_KEY' = SHARED_KEY /\ Len(uiQueue') >= Len(uiQueue) /\ ~conn'.obj.ok) =>
        \A ip \in Senders, sport \in SourcePorts, env \in HandlerEnvs,
           d \in {x \in DOMAIN Inbound :
                     \/ Inbound[x] = <<>>
                     \/ ~unpack_table[SHARED_KEY][x].ok} :
          handle_conn(ip, sport, d, env)
            => /\ conn'.obj.err \in DecodeFailures
               /\ conn'.acts = <<"recv", "close">>
               /\ conn'.sent = <<>>
               /\ peers' = peers
               /\ peersFile' = peersFile
               /\ history' = history
               /\ histFile' = histFile
               /\ uiQueue' = uiQueue
               /\ UNCHANGED <<codecVars, pc, last, appends, nowT, mon>>]_vars

\* a host that holds the key "k" and knows the sender has closed a
\* connection whose envelope carried a tag that does not match
C21_Witness ==
    /\ SHARED_KEY = <<107>>
    /\ conn.ip = "10.0.0.2"
    /\ conn.obj.err = "HmacMismatch"
    /\ conn.acts = <<"recv", "close">>
    /\ conn.known
    /\ peers["10.0.0.2"] = conn.had

\* C28 as claimed: whatever changes the table saves it before it returns, so
\* between two operations peers.json, when the last write of it succeeded,
\* holds the table as it is in memory.
C28_FileIsTable ==
    peersFile.state = "written" => peersFile.doc = peers

----------------------------------------------------------------------------
(* The exceptions of unpack_payload, checked under SpecCodec.              *)

\* C22 as claimed: whenever unpack_payload fails, it fails with one of the
\* four errors it is documented to raise: InvalidEncoding, NotJSON,
\* HmacMismatch or ConfigurationError; so it does for a wrapper whose payload
\* is no hexadecimal text, whose hmac is no string, or whose decrypted bytes
\* are no JSON although the tag matches.
C22_FourFailureModes ==
    (cstage = "decoded" /\ ~decoded.out.ok) =>
        decoded.out.err \in {"InvalidEncoding", "NotJSON", "HmacMismatch",
                             "ConfigurationError"}

----------------------------------------------------------------------------
(* The claims about threads, checked under SpecThreads.                    *)

\* C23 as claimed: no failure ends the accept loop: once listen_thread has
\* caught an error raised by accept (or by the start of a handler thread),
\* it is still in its loop, accepting connections.
C23_AcceptLoopSurvives ==
    listener.err # "none" => listener.st = "accepting"

\* the thread t is inside lines 923-929: it has its entry from setdefault and
\* has not yet left save_peers
InTableSection(t) ==
    /\ threads[t].f = "handle_conn"
    /\ threads[t].pc \in {"port", "online", "last_seen", "save_peers", "close_peers"}

\* C29 as claimed: the sequences that read, change and save the table
\* exclude one another: no two threads are inside such a sequence at once, no
\* two writes of peers.json are under way at once, and the UI thread never
\* draws an entry that setdefault has created and that has not got its port,
\* online and last_seen yet.
C29_TableSectionsExclusive ==
    /\ \A a, b \in Handlers : (InTableSection(a) /\ InTableSection(b)) => a = b
    /\ \A a, b \in Handlers :
          (threads[a].pc = "close_peers" /\ threads[b].pc = "close_peers") => a = b
    /\ threads[UIThread].f = "refresh_peers" =>
          \A ip \in DOMAIN threads[UIThread].buf :
             {K_port, K_online, K_last_seen} \subseteq DOMAIN threads[UIThread].buf[ip]

\* the thread t is inside a with history_lock block
InHistorySection(t) ==
    threads[t].pc \in {"locked", "loop", "assign", "save_history", "close_history",
                       "release"}

\* C30: the history and chat_history.json change only inside with
\* history_lock, and one thread at a time is inside: the clean of the start
\* runs before there is another thread; an append adds its entry to the list
\* as it is; the list keep_last_days stores for a peer is the list of that
\* peer as it is at that moment without its old entries, so no entry
\* appended meanwhile is dropped; and the document a save writes is the
\* history as it is when the write ends.
C30_HistoryUnderLock ==
    [][/\ \A t \in Threads : InHistorySection(t) => history_lock = t
       /\ pc = "import" => (history_lock = NoThread /\ \A t \in Threads : threads[t].pc = "idle")
       /\ (history' # history \/ histFile' # histFile) =>
             /\ history_lock # NoThread
             /\ history_lock' = history_lock
             /\ threads'[history_lock].pc # threads[history_lock].pc
       /\ \A t \in Threads :
             /\ (At(t, "handle_conn", "locked") /\ threads'[t].pc # "locked") =>
                   /\ DOMAIN history' = DOMAIN history \cup {threads[t].ip}
                   /\ \A q \in DOMAIN history : q # threads[t].ip => history'[q] = history[q]
                   /\ Len(history'[threads[t].ip]) = Len(ListOf(history, threads[t].ip)) + 1
                   /\ SubSeq(history'[threads[t].ip], 1, Len(ListOf(history, threads[t].ip)))
                         = ListOf(history, threads[t].ip)
                   /\ history'[threads[t].ip][Len(history'[threads[t].ip])].dir = "in"
                   /\ history'[threads[t].ip][Len(history'[threads[t].ip])].type = "msg"
             /\ (threads[t].pc = "assign" /\ threads'[t].pc # "assign") =>
                   history' = Put(history, Head(threads[t].todo),
                                  SelectSeq(ListOf(history, Head(threads[t].todo)),
                                            LAMBDA e : /\ e.time.k = "str"
                                                       /\ e.time.sec * TicksPerSecond
                                                             >= nowT - threads[t].n * TicksPerDay))
             /\ (/\ threads[t].pc = "close_history"
                 /\ threads'[t].pc # "close_history"
                 /\ histFile'.state = "written") =>
                   histFile'.doc = history']_vars

\* the UI thread is inside keep_last_days with the lock, between building
\* the new list of 10.0.0.2 and storing it, while a handler with a message of
\* 10.0.0.2 waits for the lock
C30_Witness ==
    /\ history_lock = UIThread
    /\ At(UIThread, "keep_last_days", "assign")
    /\ Len(threads[UIThread].new_lst) = 1
    /\ \E h \in Handlers : At(h, "handle_conn", "acquire")
    /\ Len(history["10.0.0.2"]) = 1

----------------------------------------------------------------------------
(* The port of an entry, checked under Spec.                               *)

\* the entry of ip in table holds a port other than 0
HasPort(table, ip) ==
    /\ ip \in DOMAIN table
    /\ K_port \in DOMAIN table[ip]
    /\ table[ip][K_port] # JInt(0)

\* C31: the port is sticky.  In a step of the handler or of a callback it
\* scheduled, an entry that holds a port other than 0 is still in the table
\* afterwards with the same port, whatever the envelope was (ping, pong, chat,
\* probe marker, with or without a name); and an entry whose port is new or
\* different after the step had no port or the port 0 before it.
C31_PortIsSticky ==
    [][/\ \A ip \in PeerIPs :
             HasPort(peers, ip)
                => /\ ip \in DOMAIN peers'
                   /\ K_port \in DOMAIN peers'[ip]
                   /\ peers'[ip][K_port] = peers[ip][K_port]
       /\ \A ip \in DOMAIN peers' :
             (/\ K_port \in DOMAIN peers'[ip]
              /\ \/ ip \notin DOMAIN peers
                 \/ K_port \notin DOMAIN peers[ip]
                 \/ peers'[ip][K_port] # peers[ip][K_port])
                => ~HasPort(peers, ip)]_vars

\* a pong from source port 40001 came for a peer known with port 6000, and
\* the entry is online with port 6000
C31_Witness ==
    /\ conn.ip = "10.0.0.2"
    /\ conn.obj.ok
    /\ conn.obj.val = PongObj
    /\ conn.known
    /\ conn.had[K_port] = JInt(6000)
    /\ conn.had[K_online] = JFalse
    /\ peers["10.0.0.2"][K_port] = JInt(6000)
    /\ peers["10.0.0.2"][K_online] = JTrue

----------------------------------------------------------------------------
(* The entries of the table, checked under SpecAddress.                    *)

\* C32: an entry of the table is never removed by the handler, by a callback
\* or by the monitor.  An address that is in the table before a step and not
\* after it is the local address of the host before the step, and the step
\* has changed the local address; every other entry is still there.
C32_OnlyOwnAddressIsRemoved ==
    [][\A ip \in DOMAIN peers :
          ip \notin DOMAIN peers' => (ip = local_ip /\ local_ip' # local_ip)]_vars

\* the host has moved from 10.0.0.1 to 10.0.0.3 and its old entry is gone,
\* while the peer 10.0.0.2, probed by the monitor and heard from since, and
\* the entry of 10.0.0.3 are still in the table
C32_Witness ==
    /\ local_ip = "10.0.0.3"
    /\ LocalAddress \notin DOMAIN peers
    /\ "10.0.0.3" \in DOMAIN peers
    /\ "10.0.0.2" \in DOMAIN peers
    /\ conn.ip = "10.0.0.2"
    /\ conn.known
    /\ mon.log # <<>>
    /\ mon.log[1].ip = "10.0.0.2"
    /\ mon.log[1].net = "refused"
    /\ peersFile.state = "written"
    /\ LocalAddress \notin DOMAIN peersFile.doc

----------------------------------------------------------------------------
(* Writes that fail, checked under Spec.                                   *)

\* C33: a save that fails is not passed on, what was changed in memory stays
\* changed, and the next save that succeeds writes all of the memory.  In a
\* run of the handler whose writes fail: the handler goes on to its end and
\* closes the connection; a chat message is still appended to the history and
\* handed to the display; a ping or a pong still marks its sender online, seen
\* now; a file the handler tried to save is not a written document.  And in
\* every step, a file that becomes a written document, or another one, holds
\* the whole table, or the whole history, as it is after the step.
C33_FailedSaveIsReconciled ==
    [][/\ (peersFile' # peersFile /\ peersFile'.state = "written")
             => peersFile'.doc = peers'
       /\ (histFile' # histFile /\ histFile'.state = "written")
             => histFile'.doc = history'
       /\ (conn'.obj.ok /\ SHARED_KEY' = SHARED_KEY /\ Len(uiQueue') >= Len(uiQueue)) =>
            \A ip \in Senders, sport \in SourcePorts,
               d \in {x \in DOMAIN Inbound : unpack_table[SHARED_KEY][x] = conn'.obj} :
              handle_conn(ip, sport, d, "write fails")
                => LET obj  == conn'.obj.val
                       acts == conn'.acts
                       ping == IsDict(obj) /\ HasKey(obj, K_ping)
                       pong == IsDict(obj) /\ HasKey(obj, K_pong)
                       text == DictGet(obj, K_msg, JNull)
                   IN  /\ acts[Len(acts)] = "close"
                       /\ (\E i \in DOMAIN acts : acts[i] = "save_peers")
                             => peersFile'.state # "written"
                       /\ (\E i \in DOMAIN acts : acts[i] = "record_history")
                             => histFile'.state # "written"
                       /\ (ping \/ pong)
                             => /\ ip \in DOMAIN peers'
                                /\ {K_online, K_last_seen} \subseteq DOMAIN peers'[ip]
                                /\ peers'[ip][K_online] = JTrue
                                /\ peers'[ip][K_last_seen] = strftime(nowT)
                       /\ ping => conn'.sent # <<>>
                       /\ (IsMsg(conn'.obj) /\ text # JStr(TEST_REPLY))
                             => /\ GainedOne(ip, text)
                                /\ Len(Shown) = 1
                                /\ Shown[1].ip = ip
                                /\ Shown[1].msg = text]_vars

\* the one chat message so far, {"msg": "hi", "from_port": 5050}, came while
\* the writes failed: it is in the history and its port in the table, and
\* chat_history.json is not written.  A ping came after it, and peers.json
\* now holds the whole table, the port of the message included
C33_Witness ==
    /\ appends = 1
    /\ histFile.state = "stale"
    /\ "10.0.0.2" \in DOMAIN history
    /\ Len(history["10.0.0.2"]) = 1
    /\ history["10.0.0.2"][1].msg = JStr(HiText)
    /\ conn.obj.ok
    /\ conn.obj.val = PingObj
    /\ conn.known
    /\ conn.had[K_port] = JInt(5050)
    /\ K_last_seen \notin DOMAIN conn.had
    /\ peers["10.0.0.2"][K_port] = JInt(5050)
    /\ peersFile.state = "written"
    /\ peersFile.doc = peers

----------------------------------------------------------------------------
(* The end of a handler, checked under SpecRead.                           *)

\* C34 as claimed: the handler of a connection reads at most once, and a
\* handler that was started returns, its connection closed, whatever the
\* remote host does; also when it sends nothing and does not close.
C34_HandlerReadsOnceAndCloses ==
    /\ [](\A t \in Handlers : threads[t].reads <= 1)
    /\ \A t \in Handlers : (threads[t].pc # "idle") ~> (threads[t].pc = "idle")

----------------------------------------------------------------------------
(* Plain envelopes under a key, checked under Spec.                        *)

\* the plain envelopes of the handler scenario
PlainInbound == 1..Len(InboundObjs)

\* C35 as claimed: with a key set, unpack_payload returns the object of a
\* plain envelope as it is, and the handler does with it all that it does
\* when no key is set: the same table, file, history, callbacks, and the same
\* bytes sent.
C35_PlainAsWithoutKey ==
    [][(SHARED_KEY # <<>> /\ SHARED_KEY' = SHARED_KEY
          /\ Len(uiQueue') >= Len(uiQueue)) =>
        \A ip \in Senders, sport \in SourcePorts, env \in HandlerEnvs,
           d \in {x \in PlainInbound : unpack_table[SHARED_KEY][x] = conn'.obj} :
          handle_conn(ip, sport, d, env)
            => /\ conn'.obj = Returned(InboundObjs[d], <<>>)
               /\ HandleDecoded(ip, sport, unpack_table[<<>>][d], pong_table[<<>>], env)]_vars

\* C35 as amended: with a key set, unpack_payload returns the object of a
\* plain envelope as it is, and the handler leaves the table, the file, the
\* history and the callbacks as it does when no key is set; the pong it sends
\* in answer to a plain ping is the one packed under the key, and not the
\* plain pong it sends when no key is set.
C35_PlainIsAccepted ==
    [][(SHARED_KEY # <<>> /\ SHARED_KEY' = SHARED_KEY
          /\ Len(uiQueue') >= Len(uiQueue)) =>
        \A ip \in Senders, sport \in SourcePorts, env \in HandlerEnvs,
           d \in {x \in PlainInbound : unpack_table[SHARED_KEY][x] = conn'.obj} :
          handle_conn(ip, sport, d, env)
            => /\ conn'.obj = Returned(InboundObjs[d], <<>>)
               /\ HandleDecoded(ip, sport, unpack_table[<<>>][d], pong_table[SHARED_KEY], env)
               /\ conn'.sent # <<>> => conn'.sent # pong_table[<<>>]]_vars

\* the key "k" is set, a plain ping came from a peer that was not known, the
\* peer is in the table and online, and the pong packed under "k" went back
C35_Witness ==
    /\ SHARED_KEY = <<107>>
    /\ conn.obj = Returned(PingObj, <<>>)
    /\ conn.ip = "10.0.0.2"
    /\ ~conn.known
    /\ conn.sent = pong_table[<<107>>]
    /\ "10.0.0.2" \in DOMAIN peers
    /\ peers["10.0.0.2"][K_online] = JTrue
    /\ peers["10.0.0.2"][K_port] = JInt(40001)
====
